---- MODULE Spec2Model ----
(***************************************************************************)
(* State-machine model of the linear-agent worker: two webhook endpoints   *)
(* (ticket system "linear", CI platform "github"), the D1 tables they      *)
(* share, and the handlers they route to.  One request is one process; a   *)
(* process advances one awaited operation (one D1 statement or one         *)
(* outbound call) per step, so that requests can interleave exactly where  *)
(* the worker can be suspended.                                            *)
(*                                                                         *)
(* Fault model: an outbound call (Linear GraphQL, GitHub REST) may throw.  *)
(* A D1 statement throws only where SQLite must reject it (a UNIQUE        *)
(* conflict of a plain INSERT); the one statement that is also allowed to  *)
(* fail for no modelled reason is the logEvent inside the Linear           *)
(* endpoint's catch block, which the code itself guards with try/catch.    *)
(* Deleting an installation that a team row references either succeeds or  *)
(* is rejected, as foreign keys are enforced or not.                       *)
(* The updated_at columns are left out: nothing reads them.  Stored OAuth   *)
(* tokens are not near expiry, so getOAuthToken never refreshes one.       *)
(*                                                                         *)
(* Specifications: Spec (every handler, one request at a time), SpecConc   *)
(* (two requests in flight), SpecTeams and SpecSetup (session handling     *)
(* from every shape of team row / from the empty store), SpecRuns (the     *)
(* reports of one run), SpecIntent (follow-up messages), SpecStarts (the    *)
(* start events of two runs in flight together), SpecLive (the CI platform *)
(* reporting the runs it was asked for, under fairness), SpecLedger and    *)
(* SpecUtils (the ledger and the utility functions called on their own).   *)
(***************************************************************************)
EXTENDS Integers, Sequences, FiniteSets, TLC

\* ------------------------------------------------------------------ bounds
\* Deliveries accepted over one behaviour of the sequential specification.
MaxDeliveries == 3
\* Deliveries accepted over one behaviour of the concurrent specification.
MaxConcDeliveries == 2
\* Highest value of the wall clock (datetime('now') / Date.now()).
MaxClock == 1
\* markProcessed calls over one behaviour of the ledger specification.
MaxLedgerCalls == 4
\* Outbound calls that may throw over one behaviour.
MaxFaults == 1
\* Deliveries accepted over one behaviour of the team-row specification.
MaxTeamDeliveries == 3
\* Deliveries accepted over one behaviour of the first set-up specification.
MaxSetupDeliveries == 4
\* Deliveries accepted over one behaviour of the run-reporting specification.
MaxRunDeliveries == 3
\* Deliveries accepted over one behaviour of the follow-up specification.
MaxIntentDeliveries == 2
\* Deliveries accepted over one behaviour of the concurrent-starts specification.
MaxStartDeliveries == 3
\* Deliveries accepted over one behaviour of the fair specification.
MaxLiveDeliveries == 7
\* Longest identifier given to the branch namer.
MaxIdLen == 2
\* Longest list of existing branches given to the branch namer.
MaxBranches == 3

\* ------------------------------------------------------------------ values
None == "none"

Sessions == {"s1", "s2"}
\* Strings the code inspects are sequences of one-character strings.
OwnerA == <<"a">>
RepoB == <<"b">>
DispatchBranch == <<"m", "a", "i", "n">>
InstallationIds == {7}

\* An issue: its id, its identifier (a string, as a sequence of characters)
\* and its team.  A session is tied to one issue at creation.
IssueOf(s) ==
  IF s = "s1"
  THEN [id |-> "i1", identifier |-> <<"A", "-", "1">>, team |-> [id |-> "t1"]]
  ELSE [id |-> "i2", identifier |-> <<"A", "-", "2">>, team |-> [id |-> "t1"]]

VARIABLES
  processed_webhooks,         \* table: rows [webhook_id, webhook_type]
  pending_workflow_triggers,  \* table: rows, UNIQUE(agent_session_id, workflow_type)
  workflow_runs,              \* table: rows, UNIQUE(github_run_id)
  team_configs,               \* table: rows, UNIQUE(workspace, team)
  pending_configs,            \* table: rows, UNIQUE(agent_session_id)
  github_installations,       \* table: rows, UNIQUE(installation_id)
  oauth_tokens,               \* table: set of workspace ids holding a token
  run_log,                    \* table: append-only sequence of rows
  autoinc,                    \* AUTOINCREMENT counters, per table
  outbox,                     \* outbound calls made so far, in order
  now,                        \* wall clock
  proc,                       \* proc[p]: the request process p is handling
  deliveries,                 \* number of deliveries accepted so far
  bindings,                   \* history: <<github_run_id, trigger id>> of every run created
  faults,                     \* outbound calls that have thrown so far
  calls,                      \* history: the calls made through an API (ledger, utils)
  handled                     \* history: <<webhook id, source>> of every delivery routed to handlers

tables ==
  <<processed_webhooks, pending_workflow_triggers, workflow_runs, team_configs,
    pending_configs, github_installations, oauth_tokens, run_log, autoinc>>

\* Every table except the idempotency ledger.
handlerTables ==
  <<pending_workflow_triggers, workflow_runs, team_configs, pending_configs,
    github_installations, oauth_tokens, run_log, autoinc>>

vars == <<tables, outbox, now, proc, deliveries, bindings, faults, calls, handled>>

\* A nullable value: NULL, or one value.
Null == <<>>
Some(x) == <<x>>
IsNull(o) == o = <<>>
Val(o) == o[1]

\* The greatest created_at among rows (rows is not empty).
MaxCreatedAt(rows) ==
  CHOOSE m \in {r.created_at : r \in rows} : \A r \in rows : r.created_at <= m

\* ORDER BY created_at DESC LIMIT 1: the rows that may come first.  created_at
\* has the clock's resolution, so rows written at the same clock value tie and
\* SQLite may return any of them.
NewestOf(rows) ==
  IF rows = {} THEN {} ELSE {r \in rows : r.created_at = MaxCreatedAt(rows)}

\* ------------------------------------------------- db/queries: the ledger
\* Variant: a lookup that never finds the row.
isWebhookProcessedNever(tbl, webhookId, webhookType) == FALSE

\* SELECT 1 FROM processed_webhooks WHERE webhook_id = ? AND webhook_type = ?
isWebhookProcessed(tbl, webhookId, webhookType) ==
  \E r \in tbl : r.webhook_id = webhookId /\ r.webhook_type = webhookType

\* The UNIQUE constraint of processed_webhooks is on webhook_id alone.
ProcessedConflict(tbl, webhookId, webhookType) ==
  \E r \in tbl : r.webhook_id = webhookId

\* Variant: the insert left out.
markWebhookProcessedSkipped(tbl, webhookId, webhookType) == tbl

\* INSERT OR IGNORE INTO processed_webhooks (webhook_id, webhook_type)
markWebhookProcessed(tbl, webhookId, webhookType) ==
  IF ProcessedConflict(tbl, webhookId, webhookType)
  THEN tbl
  ELSE tbl \cup {[webhook_id |-> webhookId, webhook_type |-> webhookType]}

\* ------------------------------------- db/queries: pending workflow triggers
\* The rows an INSERT OR REPLACE deletes: those that conflict on
\* UNIQUE(agent_session_id, workflow_type).
TriggerConflicts(tbl, t) ==
  {r \in tbl : r.agent_session_id = t.agentSessionId
               /\ r.workflow_type = t.workflowType}

\* Variant: a plain insert on a table without the UNIQUE constraint.
createPendingWorkflowTriggerInsertOnly(tbl, id, clock, t) ==
  tbl \cup
    {[id |-> id,
      agent_session_id |-> t.agentSessionId,
      linear_workspace_id |-> t.linearWorkspaceId,
      linear_issue_id |-> t.linearIssueId,
      linear_issue_identifier |-> t.linearIssueIdentifier,
      workflow_type |-> t.workflowType,
      github_owner |-> t.githubOwner,
      github_repo |-> t.githubRepo,
      branch_name |-> t.branchName,
      created_at |-> clock,
      matched_at |-> Null]}

\* INSERT OR REPLACE INTO pending_workflow_triggers (...): matched_at is not
\* among the inserted columns, so the new row has it NULL; id and created_at
\* are fresh.
createPendingWorkflowTrigger(tbl, id, clock, t) ==
  (tbl \ TriggerConflicts(tbl, t)) \cup
    {[id |-> id,
      agent_session_id |-> t.agentSessionId,
      linear_workspace_id |-> t.linearWorkspaceId,
      linear_issue_id |-> t.linearIssueId,
      linear_issue_identifier |-> t.linearIssueIdentifier,
      workflow_type |-> t.workflowType,
      github_owner |-> t.githubOwner,
      github_repo |-> t.githubRepo,
      branch_name |-> t.branchName,
      created_at |-> clock,
      matched_at |-> Null]}

\* Variant: the WHERE clause without matched_at IS NULL.
MatchCandidatesAnyState(tbl, githubOwner, githubRepo, branchName) ==
  {r \in tbl : /\ r.github_owner = githubOwner
               /\ r.github_repo = githubRepo
               /\ r.branch_name = branchName}

\* WHERE github_owner = ? AND github_repo = ? AND branch_name = ?
\* AND matched_at IS NULL
MatchCandidates(tbl, githubOwner, githubRepo, branchName) ==
  {r \in tbl : /\ r.github_owner = githubOwner
               /\ r.github_repo = githubRepo
               /\ r.branch_name = branchName
               /\ IsNull(r.matched_at)}

\* The rows matchPendingWorkflowTrigger may return (none: it returns null).
matchPendingWorkflowTrigger(tbl, githubOwner, githubRepo, branchName) ==
  NewestOf(MatchCandidates(tbl, githubOwner, githubRepo, branchName))

\* UPDATE pending_workflow_triggers SET matched_at = datetime('now') WHERE id = ?
markPendingWorkflowMatched(tbl, id, clock) ==
  {IF r.id = id THEN [r EXCEPT !.matched_at = Some(clock)] ELSE r : r \in tbl}

\* ----------------------------------------------- db/queries: workflow runs
\* Variant: the WHERE clause left out.
getWorkflowRunAnyId(tbl, githubRunId) == tbl

\* SELECT * FROM workflow_runs WHERE github_run_id = ?
getWorkflowRun(tbl, githubRunId) ==
  {r \in tbl : r.github_run_id = githubRunId}

\* Variant: the WHERE clause without status != 'completed'.
getActiveWorkflowRunByIssueAnyStatus(tbl, linearIssueId) ==
  NewestOf({r \in tbl : r.linear_issue_id = linearIssueId})

\* ... WHERE linear_issue_id = ? AND status != 'completed'
\* ORDER BY created_at DESC LIMIT 1
getActiveWorkflowRunByIssue(tbl, linearIssueId) ==
  NewestOf({r \in tbl : r.linear_issue_id = linearIssueId
                        /\ r.status # "completed"})

\* UNIQUE(github_run_id): a plain INSERT of an existing run id throws.
RunConflict(tbl, githubRunId) == \E r \in tbl : r.github_run_id = githubRunId

\* INSERT INTO workflow_runs (...) RETURNING *: status defaults to 'queued',
\* conclusion, pr_number and pr_url to NULL.
NewWorkflowRun(id, clock, run) ==
  [id |-> id,
   github_run_id |-> run.githubRunId,
   github_owner |-> run.githubOwner,
   github_repo |-> run.githubRepo,
   agent_session_id |-> run.agentSessionId,
   linear_issue_id |-> run.linearIssueId,
   linear_issue_identifier |-> run.linearIssueIdentifier,
   linear_workspace_id |-> run.linearWorkspaceId,
   workflow_type |-> run.workflowType,
   branch_name |-> run.branchName,
   status |-> "queued",
   conclusion |-> None,
   pr_number |-> Null,
   pr_url |-> None,
   created_at |-> clock]

\* One row under updateWorkflowRun's SET clauses: a column is written exactly
\* when its key is present in updates.
UpdatedRun(r, updates) ==
  [r EXCEPT
     !.status = IF "status" \in DOMAIN updates THEN updates.status ELSE @,
     !.conclusion = IF "conclusion" \in DOMAIN updates THEN updates.conclusion ELSE @,
     !.pr_number = IF "prNumber" \in DOMAIN updates THEN updates.prNumber ELSE @,
     !.pr_url = IF "prUrl" \in DOMAIN updates THEN updates.prUrl ELSE @]

\* Variant: an update that matches no row.
updateWorkflowRunNoRow(tbl, githubRunId, updates) == tbl

\* UPDATE workflow_runs SET ... WHERE github_run_id = ?
updateWorkflowRun(tbl, githubRunId, updates) ==
  IF DOMAIN updates = {}
  THEN tbl
  ELSE {IF r.github_run_id = githubRunId THEN UpdatedRun(r, updates) ELSE r
          : r \in tbl}

\* ------------------------------------ db/queries: configs and installations
\* SELECT * FROM team_configs WHERE linear_workspace_id = ? AND linear_team_id = ?
getTeamConfigByWorkspace(tbl, linearWorkspaceId, linearTeamId) ==
  {r \in tbl : r.linear_workspace_id = linearWorkspaceId
               /\ r.linear_team_id = linearTeamId}

\* UNIQUE(linear_workspace_id, linear_team_id): a plain INSERT throws on it.
TeamConfigConflict(tbl, linearWorkspaceId, linearTeamId) ==
  getTeamConfigByWorkspace(tbl, linearWorkspaceId, linearTeamId) # {}

\* INSERT INTO team_configs (...) RETURNING *
NewTeamConfig(config) ==
  [linear_workspace_id |-> config.linearWorkspaceId,
   linear_team_id |-> config.linearTeamId,
   github_installation_id |-> config.githubInstallationId,
   github_owner |-> config.githubOwner,
   github_repo |-> config.githubRepo,
   github_branch |-> config.githubBranch]

\* INSERT OR REPLACE INTO pending_configs, UNIQUE(agent_session_id)
createPendingConfig(tbl, config) ==
  {r \in tbl : r.agent_session_id # config.agentSessionId} \cup
    {[agent_session_id |-> config.agentSessionId,
      linear_workspace_id |-> config.linearWorkspaceId,
      linear_team_id |-> config.linearTeamId,
      pending_issue_id |-> config.pendingIssueId,
      pending_issue_identifier |-> config.pendingIssueIdentifier]}

\* Variant: a lookup that never finds the row.
getPendingConfigNone(tbl, agentSessionId) == {}

\* SELECT * FROM pending_configs WHERE agent_session_id = ?
getPendingConfig(tbl, agentSessionId) ==
  {r \in tbl : r.agent_session_id = agentSessionId}

\* DELETE FROM pending_configs WHERE agent_session_id = ?
deletePendingConfig(tbl, agentSessionId) ==
  {r \in tbl : r.agent_session_id # agentSessionId}

\* SELECT * FROM github_installations WHERE account_login = ?
getGitHubInstallationByAccount(tbl, accountLogin) ==
  {r \in tbl : r.account_login = accountLogin}

\* UNIQUE(installation_id): a plain INSERT of an existing installation throws.
InstallationConflict(tbl, installationId) ==
  \E r \in tbl : r.installation_id = installationId

\* INSERT INTO github_installations (...) RETURNING *
createGitHubInstallation(tbl, installation) ==
  tbl \cup {[installation_id |-> installation.installationId,
             account_login |-> installation.accountLogin,
             account_type |-> installation.accountType]}

\* INSERT ... ON CONFLICT(installation_id) DO UPDATE SET account_login, account_type
upsertGitHubInstallation(tbl, installation) ==
  {r \in tbl : r.installation_id # installation.installationId} \cup
    {[installation_id |-> installation.installationId,
      account_login |-> installation.accountLogin,
      account_type |-> installation.accountType]}

\* DELETE FROM github_installations WHERE installation_id = ?
deleteGitHubInstallation(tbl, installationId) ==
  {r \in tbl : r.installation_id # installationId}

\* SELECT access_token FROM oauth_tokens WHERE workspace_id = ?: whether a
\* token comes back (the token's value is not modelled).
getOAuthToken(tbl, workspaceId) == workspaceId \in tbl

\* INSERT INTO run_log (workflow_run_id, agent_session_id, event_type, ...)
logEvent(tbl, event) == Append(tbl, event)

LogRow(eventType, agentSessionId, workflowRunId, info) ==
  [event_type |-> eventType, agent_session_id |-> agentSessionId,
   workflow_run_id |-> workflowRunId, info |-> info]

\* ------------------------------------------------------------ utils/crypto
LINEAR_WEBHOOK_SECRET == "linear-secret"
GITHUB_WEBHOOK_SECRET == "github-secret"

\* Hex digits kept of a digest (the real digest has 64).
DigestLen == 2

\* arrayBufferToHex(HMAC-SHA256(secret, body)): an abstract digest.  Position
\* i holds a token standing for the i-th hex digit, different for different
\* (secret, body).
HmacHex(secret, body) ==
  [i \in 1..DigestLen |-> <<secret, body, i>>]

\* a.charCodeAt(i) ^ b.charCodeAt(i), as zero / non-zero.
CharXor(x, y) == IF x = y THEN 0 ELSE 1

\* Variant: result = a[i] ^ b[i], which keeps the last character's difference only.
XorAccumulateLastOnly(a, b, n) ==
  IF n = 0 THEN 0 ELSE CharXor(a[n], b[n])

\* result |= a[i] ^ b[i] over the first n characters.
RECURSIVE XorAccumulate(_, _, _)
XorAccumulate(a, b, n) ==
  IF n = 0 THEN 0
  ELSE IF XorAccumulate(a, b, n - 1) # 0 \/ CharXor(a[n], b[n]) # 0 THEN 1 ELSE 0

\* Variant: only the lengths are compared.
timingSafeEqualLengthOnly(a, b) == Len(a) = Len(b)

timingSafeEqual(a, b) ==
  IF Len(a) # Len(b) THEN FALSE ELSE XorAccumulate(a, b, Len(a)) = 0

verifyLinearSignature(body, signature, secret) ==
  timingSafeEqual(signature, HmacHex(secret, body))

Sha256Prefix == <<"s", "h", "a", "2", "5", "6", "=">>

StartsWith(str, prefix) ==
  Len(str) >= Len(prefix) /\ SubSeq(str, 1, Len(prefix)) = prefix

verifyGitHubSignature(body, signature, secret) ==
  IF ~StartsWith(signature, Sha256Prefix)
  THEN FALSE
  ELSE timingSafeEqual(SubSeq(signature, Len(Sha256Prefix) + 1, Len(signature)),
                       HmacHex(secret, body))

\* ------------------------------------------------------------ webhook ids
\* `${Date.now()}`
DateNow(clock) == ToString(clock)

\* handleGitHubWebhook: `github-${eventType}-${deliveryId}`, the delivery id
\* being the x-github-delivery header or, without one, Date.now().  The id is
\* kept as a tuple of its parts.
GitHubWebhookId(eventType, deliveryHeader, clock) ==
  <<"github", eventType,
    IF deliveryHeader = "" THEN DateNow(clock) ELSE deliveryHeader>>

isAgentSessionWebhook(payload) == payload.type = "AgentSessionEvent"

isUnassignWebhook(payload) ==
  payload.type = "AppUserNotification" /\ payload.action = "issueUnassignedFromYou"

\* Variant: the activity id left out of a reply's id.
generateWebhookIdNoActivity(payload, clock) ==
  IF isAgentSessionWebhook(payload)
  THEN <<"linear-session", payload.agentSession.id, payload.action>>
  ELSE IF isUnassignWebhook(payload)
       THEN <<"linear-unassign", payload.notification.issue.id, DateNow(clock)>>
       ELSE <<"linear-unknown", DateNow(clock)>>

\* The parts are joined by '-' in the code.  Ids of events of one session
\* share the prefix up to the action, 'created' and 'prompted' differ in
\* their first character, and two replies differ exactly in the activity id
\* that ends the string: within a session the tuple and the string tell the
\* same events apart.
generateWebhookId(payload, clock) ==
  IF isAgentSessionWebhook(payload)
  THEN IF payload.action = "prompted" /\ payload.agentActivity.id # ""
       THEN <<"linear-session", payload.agentSession.id, "prompted",
              payload.agentActivity.id>>
       ELSE <<"linear-session", payload.agentSession.id, payload.action>>
  ELSE IF isUnassignWebhook(payload)
       THEN <<"linear-unassign", payload.notification.issue.id, DateNow(clock)>>
       ELSE <<"linear-unknown", DateNow(clock)>>

\* ------------------------------------------------------------ utils/branch
\* Strings are sequences of one-character strings.
UpperLetters ==
  <<"A", "B", "C", "D", "E", "F", "G", "H", "I", "J", "K", "L", "M",
    "N", "O", "P", "Q", "R", "S", "T", "U", "V", "W", "X", "Y", "Z">>
LowerLetters ==
  <<"a", "b", "c", "d", "e", "f", "g", "h", "i", "j", "k", "l", "m",
    "n", "o", "p", "q", "r", "s", "t", "u", "v", "w", "x", "y", "z">>
Digits == <<"0", "1", "2", "3", "4", "5", "6", "7", "8", "9">>

Range(f) == {f[i] : i \in DOMAIN f}

\* String.prototype.toLowerCase, one character.
LowerChar(c) ==
  IF c \in Range(UpperLetters)
  THEN LowerLetters[CHOOSE i \in DOMAIN UpperLetters : UpperLetters[i] = c]
  ELSE c

toLowerCase(str) == [i \in DOMAIN str |-> LowerChar(str[i])]

\* [a-z0-9-]
BranchChar(c) == c \in Range(LowerLetters) \cup Range(Digits) \cup {"-"}

\* identifier.toLowerCase().replace(/[^a-z0-9-]/g, '-')
Sanitized(identifier) ==
  [i \in DOMAIN identifier |->
     IF BranchChar(LowerChar(identifier[i])) THEN LowerChar(identifier[i]) ELSE "-"]

AgentPrefix == <<"a", "g", "e", "n", "t", "/">>

generateBranchName(identifier) == AgentPrefix \o Sanitized(identifier)

\* `${n}` for n >= 0.
RECURSIVE Decimal(_)
Decimal(n) ==
  IF n < 10 THEN <<Digits[n + 1]>> ELSE Decimal(n \div 10) \o <<Digits[(n % 10) + 1]>>

\* `${baseName}-${suffix}`
Suffixed(baseName, suffix) == baseName \o <<"-">> \o Decimal(suffix)

\* Variant: the first suffix taken without scanning the list.
ProbeSuffixNoScan(baseName, existingBranches, suffix) == suffix

\* let suffix = 2; while (existingBranches.includes(...)) suffix++
RECURSIVE ProbeSuffix(_, _, _)
ProbeSuffix(baseName, existingBranches, suffix) ==
  IF Suffixed(baseName, suffix) \in Range(existingBranches)
  THEN ProbeSuffix(baseName, existingBranches, suffix + 1)
  ELSE suffix

findAvailableBranchName(identifier, existingBranches) ==
  LET baseName == generateBranchName(identifier)
  IN  IF baseName \notin Range(existingBranches)
      THEN baseName
      ELSE Suffixed(baseName, ProbeSuffix(baseName, existingBranches, 2))

\* ---------------------------------------------------------------- requests
\* A process that handles no request.  The locals of a handler live here
\* while the request is in flight and are dropped with the response.
NoResponse == [status |-> 0, body |-> "none"]

IdleProc ==
  [pc |-> "idle", req |-> Null, webhookId |-> <<>>, resp |-> NoResponse,
   workflowRun |-> Null, pendingTrigger |-> Null, config |-> Null,
   pendingConfig |-> Null, dispatch |-> Null, prs |-> <<>>,
   branchName |-> <<>>, repo |-> Null, installationId |-> Null, error |-> None]

\* c.json(body, status): the request ends and its locals are dropped.
Responded(status, body) ==
  [IdleProc EXCEPT !.resp = [status |-> status, body |-> body]]

Active(p) == proc[p].pc # "idle"

Req(p) == Val(proc[p].req)

\* The process state after a handler threw.  On the GitHub endpoint the catch
\* block answers at once; on the Linear endpoint it first tries to log.
Thrown(pr, error) ==
  IF Val(pr.req).endpoint = "github"
  THEN Responded(200, "error")
  ELSE [IdleProc EXCEPT !.pc = "l_catch", !.req = pr.req,
                        !.webhookId = pr.webhookId, !.error = error]

\* An outbound call that returned, and one that threw.
CallOk(call) == Append(outbox, [call EXCEPT !.ok = TRUE])
CallFailed(call) == Append(outbox, [call EXCEPT !.ok = FALSE])

LinearCall(op, target, arg) ==
  [api |-> "linear", op |-> op, target |-> target, arg |-> arg, ok |-> TRUE]
GitHubCall(op, target, arg) ==
  [api |-> "github", op |-> op, target |-> target, arg |-> arg, ok |-> TRUE]

cfgTables == <<team_configs, pending_configs, github_installations, oauth_tokens>>

\* The steps of an endpoint before its handlers, and the requests in flight
\* that have not reached the ledger insert yet.
BeforeHandlers == {"g_verify", "g_check", "g_mark", "l_verify", "l_check", "l_mark"}
Unrecorded == Cardinality({q \in DOMAIN proc : proc[q].pc \in BeforeHandlers})

\* --------------------------------------------- handlers/github-webhook.ts
\* The request arrives: body, x-hub-signature-256, x-github-event and
\* x-github-delivery are read.
GitHubArrive(p, request, limit) ==
  /\ ~Active(p)
  /\ deliveries + Unrecorded < limit
  /\ request.endpoint = "github"
  /\ proc' = [proc EXCEPT ![p] = [IdleProc EXCEPT !.pc = "g_verify",
                                                  !.req = Some(request)]]
  /\ UNCHANGED <<tables, outbox, now, deliveries, bindings, faults, calls, handled>>

GitHubVerify(p) ==
  /\ proc[p].pc = "g_verify"
  /\ IF verifyGitHubSignature(Req(p).payload, Req(p).signature, GITHUB_WEBHOOK_SECRET)
     THEN proc' = [proc EXCEPT ![p].pc = "g_check",
                               ![p].webhookId =
                                  GitHubWebhookId(Req(p).eventType, Req(p).delivery, now)]
     ELSE proc' = [proc EXCEPT ![p] = Responded(401, "Invalid signature")]
  /\ UNCHANGED <<tables, outbox, now, deliveries, bindings, faults, calls, handled>>

GitHubCheck(p) ==
  /\ proc[p].pc = "g_check"
  /\ IF isWebhookProcessed(processed_webhooks, proc[p].webhookId, "github")
     THEN proc' = [proc EXCEPT ![p] = Responded(200, "already_processed")]
     ELSE proc' = [proc EXCEPT ![p].pc = "g_mark"]
  /\ UNCHANGED <<tables, outbox, now, deliveries, bindings, faults, calls, handled>>

GitHubMark(p) ==
  /\ proc[p].pc = "g_mark"
  /\ processed_webhooks' =
       markWebhookProcessed(processed_webhooks, proc[p].webhookId, "github")
  /\ deliveries' = deliveries + 1
  /\ proc' = [proc EXCEPT ![p].pc = "g_route"]
  /\ UNCHANGED <<handlerTables, outbox, now, bindings, faults, calls, handled>>

\* switch (eventType); handlePullRequest only logs to the console.
GitHubRoute(p) ==
  /\ proc[p].pc = "g_route"
  /\ proc' =
       [proc EXCEPT ![p] =
          CASE Req(p).eventType = "workflow_run" -> [@ EXCEPT !.pc = "wr_get"]
            [] Req(p).eventType = "installation" -> [@ EXCEPT !.pc = "in_apply"]
            [] OTHER -> Responded(200, "ok")]
  /\ handled' = Append(handled, <<proc[p].webhookId, "github">>)
  /\ UNCHANGED <<tables, outbox, now, deliveries, bindings, faults, calls>>

\* handleWorkflowRun: db.getWorkflowRun
WrGet(p) ==
  /\ proc[p].pc = "wr_get"
  /\ LET found == getWorkflowRun(workflow_runs, Req(p).payload.workflow_run.id)
     IN  IF found = {}
         THEN proc' = [proc EXCEPT ![p].pc = "wr_match"]
         ELSE \E r \in found :
                proc' = [proc EXCEPT ![p].pc = "wr_token", ![p].workflowRun = Some(r)]
  /\ UNCHANGED <<tables, outbox, now, deliveries, bindings, faults, calls, handled>>

\* Variant: the trigger read and marked as matched in one statement.
WrMatchAndMark(p) ==
  /\ proc[p].pc = "wr_match"
  /\ LET wr == Req(p).payload.workflow_run
         found == matchPendingWorkflowTrigger(pending_workflow_triggers,
                                              wr.owner, wr.repo, wr.head_branch)
     IN  IF found = {}
         THEN /\ proc' = [proc EXCEPT ![p] = Responded(200, "ok")]
              /\ UNCHANGED pending_workflow_triggers
         ELSE \E t \in found :
                /\ proc' = [proc EXCEPT ![p].pc = "wr_create",
                                        ![p].pendingTrigger = Some(t)]
                /\ pending_workflow_triggers' =
                     markPendingWorkflowMatched(pending_workflow_triggers, t.id, now)
  /\ UNCHANGED <<processed_webhooks, workflow_runs, cfgTables, run_log, autoinc,
                 outbox, now, deliveries, bindings, faults, calls, handled>>

\* handleWorkflowRun: db.matchPendingWorkflowTrigger
WrMatch(p) ==
  /\ proc[p].pc = "wr_match"
  /\ LET wr == Req(p).payload.workflow_run
         found == matchPendingWorkflowTrigger(pending_workflow_triggers,
                                              wr.owner, wr.repo, wr.head_branch)
     IN  IF found = {}
         THEN proc' = [proc EXCEPT ![p] = Responded(200, "ok")]
         ELSE \E t \in found :
                proc' = [proc EXCEPT ![p].pc = "wr_create",
                                     ![p].pendingTrigger = Some(t)]
  /\ UNCHANGED <<tables, outbox, now, deliveries, bindings, faults, calls, handled>>

\* The argument handleWorkflowRun gives db.createWorkflowRun.
RunFromTrigger(wr, pendingTrigger) ==
  [githubRunId |-> wr.id,
   githubOwner |-> wr.owner,
   githubRepo |-> wr.repo,
   agentSessionId |-> pendingTrigger.agent_session_id,
   linearIssueId |-> pendingTrigger.linear_issue_id,
   linearIssueIdentifier |-> pendingTrigger.linear_issue_identifier,
   linearWorkspaceId |-> pendingTrigger.linear_workspace_id,
   workflowType |-> "implement",
   branchName |-> wr.head_branch]

\* handleWorkflowRun: db.createWorkflowRun
WrCreate(p) ==
  /\ proc[p].pc = "wr_create"
  /\ LET wr == Req(p).payload.workflow_run
         t == Val(proc[p].pendingTrigger)
         row == NewWorkflowRun(autoinc.workflow_runs, now, RunFromTrigger(wr, t))
     IN  IF RunConflict(workflow_runs, wr.id)
         THEN /\ proc' = [proc EXCEPT ![p] = Thrown(@, "UNIQUE constraint failed")]
              /\ UNCHANGED <<workflow_runs, autoinc, bindings>>
         ELSE /\ workflow_runs' = workflow_runs \cup {row}
              /\ autoinc' = [autoinc EXCEPT !.workflow_runs = @ + 1]
              /\ bindings' = bindings \cup {<<wr.id, t.id>>}
              /\ proc' = [proc EXCEPT ![p].pc = "wr_matched",
                                      ![p].workflowRun = Some(row)]
  /\ UNCHANGED <<processed_webhooks, pending_workflow_triggers, cfgTables, run_log,
                 outbox, now, deliveries, faults, calls, handled>>

\* handleWorkflowRun: db.markPendingWorkflowMatched
WrMarkMatched(p) ==
  /\ proc[p].pc = "wr_matched"
  /\ pending_workflow_triggers' =
       markPendingWorkflowMatched(pending_workflow_triggers,
                                  Val(proc[p].pendingTrigger).id, now)
  /\ proc' = [proc EXCEPT ![p].pc = "wr_token"]
  /\ UNCHANGED <<processed_webhooks, workflow_runs, cfgTables, run_log, autoinc,
                 outbox, now, deliveries, bindings, faults, calls, handled>>

\* workflow_run.conclusion || 'unknown'
Conclusion(wr) == IF wr.conclusion = None THEN "unknown" ELSE wr.conclusion

\* handleWorkflowRun: getOAuthToken, then the branch on action.
WrToken(p) ==
  /\ proc[p].pc = "wr_token"
  /\ LET run == Val(proc[p].workflowRun)
         oauthToken == /\ run.linear_workspace_id # None
                       /\ getOAuthToken(oauth_tokens, run.linear_workspace_id)
         action == Req(p).payload.action
     IN  proc' =
           [proc EXCEPT ![p] =
              IF ~oauthToken THEN Responded(200, "ok")
              ELSE IF action = "in_progress" THEN [@ EXCEPT !.pc = "wr_update"]
              ELSE IF action = "completed"
                   THEN [@ EXCEPT !.pc = IF Conclusion(Req(p).payload.workflow_run) = "success"
                                         THEN "wc_list" ELSE "wc_update"]
              ELSE Responded(200, "ok")]
  /\ UNCHANGED <<tables, outbox, now, deliveries, bindings, faults, calls, handled>>

\* handleWorkflowRun, action in_progress: db.updateWorkflowRun
WrUpdate(p) ==
  /\ proc[p].pc = "wr_update"
  /\ workflow_runs' = updateWorkflowRun(workflow_runs, Req(p).payload.workflow_run.id,
                                        [status |-> "in_progress"])
  /\ proc' = [proc EXCEPT ![p].pc = "wr_notify"]
  /\ UNCHANGED <<processed_webhooks, pending_workflow_triggers, cfgTables, run_log,
                 autoinc, outbox, now, deliveries, bindings, faults, calls, handled>>

\* handleWorkflowRun, action in_progress: linear.sendAction
WrNotify(p) ==
  /\ proc[p].pc = "wr_notify"
  /\ LET call == LinearCall("action", Val(proc[p].workflowRun).agent_session_id, "Running")
     IN  \/ /\ outbox' = CallOk(call)
            /\ proc' = [proc EXCEPT ![p] = Responded(200, "ok")]
            /\ UNCHANGED faults
         \/ /\ faults < MaxFaults
            /\ outbox' = CallFailed(call)
            /\ faults' = faults + 1
            /\ proc' = [proc EXCEPT ![p] = Thrown(@, "Linear API error")]
  /\ UNCHANGED <<tables, now, deliveries, bindings, calls, handled>>

\* String.prototype.includes
Includes(str, needle) ==
  \E i \in 0..(Len(str) - Len(needle)) : SubSeq(str, i + 1, i + Len(needle)) = needle

\* The open pull requests of the repository, as the CI platform may report
\* them at the time of a call.
FeaturePR ==
  [number |-> 5, html_url |-> "pull/5",
   head |-> generateBranchName(IssueOf("s1").identifier),
   title |-> <<"a", "-", "1", ":", "x">>]
BasePR ==
  [number |-> 9, html_url |-> "pull/9",
   head |-> DispatchBranch, title |-> <<"d", "o", "c", "s">>]
OpenPRWorlds == {<<>>, <<FeaturePR>>, <<BasePR, FeaturePR>>}

\* GET /repos/{owner}/{repo}/pulls?head={owner}:{branch}&state=open
listPullRequestsForBranch(world, branch) ==
  LET OnBranch(pr) == pr.head = branch
      found == SelectSeq(world, OnBranch)
  IN  [i \in DOMAIN found |-> [number |-> found[i].number, html_url |-> found[i].html_url]]

\* Variant: the titles compared as they are written.
searchPullRequestsByTitleCaseSensitive(world, searchTerm) ==
  LET InTitle(pr) == Includes(pr.title, searchTerm)
  IN  SelectSeq(world, InTitle)

\* prs.filter(pr => pr.title.toLowerCase().includes(searchTerm.toLowerCase()))
searchPullRequestsByTitle(world, searchTerm) ==
  LET InTitle(pr) == Includes(toLowerCase(pr.title), toLowerCase(searchTerm))
  IN  SelectSeq(world, InTitle)

\* handleWorkflowComplete: github.listPullRequestsForBranch
WcList(p) ==
  /\ proc[p].pc = "wc_list"
  /\ LET run == Val(proc[p].workflowRun)
         call == GitHubCall("listPullRequestsForBranch", run.github_run_id,
                            [branch |-> run.branch_name, answer |-> <<>>])
     IN  \/ /\ \E world \in OpenPRWorlds :
                 LET prs == listPullRequestsForBranch(world, run.branch_name)
                 IN  /\ proc' = [proc EXCEPT
                                   ![p].prs = prs,
                                   ![p].pc = IF Len(prs) = 0
                                                /\ run.linear_issue_identifier # <<>>
                                             THEN "wc_search" ELSE "wc_update"]
                     /\ outbox' = CallOk([call EXCEPT !.arg.answer = prs])
            /\ UNCHANGED faults
         \/ /\ faults < MaxFaults
            /\ outbox' = CallFailed(call)
            /\ faults' = faults + 1
            /\ proc' = [proc EXCEPT ![p] = Thrown(@, "GitHub API error")]
  /\ UNCHANGED <<tables, now, deliveries, bindings, calls, handled>>

\* handleWorkflowComplete: github.searchPullRequestsByTitle
WcSearch(p) ==
  /\ proc[p].pc = "wc_search"
  /\ LET run == Val(proc[p].workflowRun)
         call == GitHubCall("searchPullRequestsByTitle", run.github_run_id,
                            [term |-> run.linear_issue_identifier, answer |-> <<>>])
     IN  \/ /\ \E world \in OpenPRWorlds :
                 LET prsByTitle == searchPullRequestsByTitle(world, run.linear_issue_identifier)
                 IN  /\ proc' = [proc EXCEPT
                                   ![p].prs = [i \in DOMAIN prsByTitle |->
                                                 [number |-> prsByTitle[i].number,
                                                  html_url |-> prsByTitle[i].html_url]],
                                   ![p].pc = "wc_update"]
                     /\ outbox' = CallOk([call EXCEPT !.arg.answer = world])
            /\ UNCHANGED faults
         \/ /\ faults < MaxFaults
            /\ outbox' = CallFailed(call)
            /\ faults' = faults + 1
            /\ proc' = [proc EXCEPT ![p] = Thrown(@, "GitHub API error")]
  /\ UNCHANGED <<tables, now, deliveries, bindings, calls, handled>>

\* The outcome handleWorkflowComplete is in, from its conclusion and prs.
CompletionCase(conclusion, prs) ==
  IF conclusion = "success"
  THEN IF Len(prs) > 0 THEN "pr" ELSE "no_pr"
  ELSE "failed"

\* Variant: the pull request left out of the update.
CompletionUpdatesStatusOnly(conclusion, prs) ==
  [status |-> "completed", conclusion |-> conclusion]

\* The updates handleWorkflowComplete gives db.updateWorkflowRun.
CompletionUpdates(conclusion, prs) ==
  IF CompletionCase(conclusion, prs) = "pr"
  THEN [status |-> "completed", conclusion |-> conclusion,
        prNumber |-> Some(prs[1].number), prUrl |-> prs[1].html_url]
  ELSE [status |-> "completed", conclusion |-> conclusion]

\* handleWorkflowComplete: db.updateWorkflowRun, in each of its three branches
WcUpdate(p) ==
  /\ proc[p].pc = "wc_update"
  /\ LET conclusion == Conclusion(Req(p).payload.workflow_run)
     IN  /\ workflow_runs' =
              updateWorkflowRun(workflow_runs, Val(proc[p].workflowRun).github_run_id,
                                CompletionUpdates(conclusion, proc[p].prs))
         /\ proc' = [proc EXCEPT
                       ![p].pc = IF CompletionCase(conclusion, proc[p].prs) = "pr"
                                 THEN "wc_attach" ELSE "wc_respond"]
  /\ UNCHANGED <<processed_webhooks, pending_workflow_triggers, cfgTables, run_log,
                 autoinc, outbox, now, deliveries, bindings, faults, calls, handled>>

\* handleWorkflowComplete: linear.createAttachment
WcAttach(p) ==
  /\ proc[p].pc = "wc_attach"
  /\ LET call == LinearCall("createAttachment", Val(proc[p].workflowRun).linear_issue_id,
                            proc[p].prs[1].html_url)
     IN  \/ /\ outbox' = CallOk(call)
            /\ proc' = [proc EXCEPT ![p].pc = "wc_respond"]
            /\ UNCHANGED faults
         \/ /\ faults < MaxFaults
            /\ outbox' = CallFailed(call)
            /\ faults' = faults + 1
            /\ proc' = [proc EXCEPT ![p] = Thrown(@, "Linear API error")]
  /\ UNCHANGED <<tables, now, deliveries, bindings, calls, handled>>

\* The activity handleWorkflowComplete sends: a response naming the pull
\* request, the 'no code changes' response, or an error with the link
\* https://github.com/{owner}/{repo}/actions/runs/{run id}.
CompletionActivity(run, conclusion, prs) ==
  CASE CompletionCase(conclusion, prs) = "pr" ->
         LinearCall("response", run.agent_session_id,
                    [kind |-> "complete", pr |-> prs[1],
                     identifier |-> run.linear_issue_identifier])
    [] CompletionCase(conclusion, prs) = "no_pr" ->
         LinearCall("response", run.agent_session_id, [kind |-> "no_changes"])
    [] OTHER ->
         LinearCall("error", run.agent_session_id,
                    [kind |-> "failed", conclusion |-> conclusion,
                     link |-> <<run.github_owner, run.github_repo, run.github_run_id>>])

\* handleWorkflowComplete: linear.sendResponse / linear.sendError
WcRespond(p) ==
  /\ proc[p].pc = "wc_respond"
  /\ LET call == CompletionActivity(Val(proc[p].workflowRun),
                                    Conclusion(Req(p).payload.workflow_run), proc[p].prs)
     IN  \/ /\ outbox' = CallOk(call)
            /\ proc' = [proc EXCEPT ![p].pc = "wc_log"]
            /\ UNCHANGED faults
         \/ /\ faults < MaxFaults
            /\ outbox' = CallFailed(call)
            /\ faults' = faults + 1
            /\ proc' = [proc EXCEPT ![p] = Thrown(@, "Linear API error")]
  /\ UNCHANGED <<tables, now, deliveries, bindings, calls, handled>>

\* handleWorkflowComplete: db.logEvent, then handleGitHubWebhook answers ok
WcLog(p) ==
  /\ proc[p].pc = "wc_log"
  /\ LET run == Val(proc[p].workflowRun)
     IN  run_log' = logEvent(run_log,
                             LogRow("workflow_completed", run.agent_session_id,
                                    Some(run.id), Conclusion(Req(p).payload.workflow_run)))
  /\ proc' = [proc EXCEPT ![p] = Responded(200, "ok")]
  /\ UNCHANGED <<processed_webhooks, pending_workflow_triggers, workflow_runs, cfgTables,
                 autoinc, outbox, now, deliveries, bindings, faults, calls, handled>>

\* team_configs.github_installation_id REFERENCES github_installations: the
\* team rows that point at an installation.
InstallationReferenced(tbl, installationId) ==
  \E c \in tbl : c.github_installation_id = Some(installationId)

\* handleInstallation: db.createGitHubInstallation / db.deleteGitHubInstallation.
\* Deleting an installation a team row points at succeeds where foreign keys
\* are not enforced and is rejected where they are.
InstApply(p) ==
  /\ proc[p].pc = "in_apply"
  /\ LET action == Req(p).payload.action
         installation == Req(p).payload.installation
     IN  IF action = "created"
         THEN IF InstallationConflict(github_installations, installation.id)
              THEN /\ proc' = [proc EXCEPT ![p] = Thrown(@, "UNIQUE constraint failed")]
                   /\ UNCHANGED github_installations
              ELSE /\ github_installations' =
                        createGitHubInstallation(github_installations,
                          [installationId |-> installation.id,
                           accountLogin |-> installation.account.login,
                           accountType |-> installation.account.type])
                   /\ proc' = [proc EXCEPT ![p].pc = "in_log"]
         ELSE IF action = "deleted"
              THEN \/ /\ github_installations' =
                           deleteGitHubInstallation(github_installations, installation.id)
                      /\ proc' = [proc EXCEPT ![p].pc = "in_log"]
                   \/ /\ InstallationReferenced(team_configs, installation.id)
                      /\ proc' = [proc EXCEPT ![p] =
                                     Thrown(@, "FOREIGN KEY constraint failed")]
                      /\ UNCHANGED github_installations
              ELSE /\ proc' = [proc EXCEPT ![p] = Responded(200, "ok")]
                   /\ UNCHANGED github_installations
  /\ UNCHANGED <<processed_webhooks, pending_workflow_triggers, workflow_runs, team_configs,
                 pending_configs, oauth_tokens, run_log, autoinc, outbox, now, deliveries,
                 bindings, faults, calls, handled>>

\* handleInstallation: db.logEvent
InstLog(p) ==
  /\ proc[p].pc = "in_log"
  /\ run_log' = logEvent(run_log,
                         LogRow(IF Req(p).payload.action = "created"
                                THEN "github_app_installed" ELSE "github_app_uninstalled",
                                None, Null, Req(p).payload.installation.account.login))
  /\ proc' = [proc EXCEPT ![p] = Responded(200, "ok")]
  /\ UNCHANGED <<processed_webhooks, pending_workflow_triggers, workflow_runs, cfgTables,
                 autoinc, outbox, now, deliveries, bindings, faults, calls, handled>>

\* --------------------------------------------- handlers/linear-webhook.ts
LinearArrive(p, request, limit) ==
  /\ ~Active(p)
  /\ deliveries + Unrecorded < limit
  /\ request.endpoint = "linear"
  /\ proc' = [proc EXCEPT ![p] = [IdleProc EXCEPT !.pc = "l_verify",
                                                  !.req = Some(request)]]
  /\ UNCHANGED <<tables, outbox, now, deliveries, bindings, faults, calls, handled>>

LinearVerify(p) ==
  /\ proc[p].pc = "l_verify"
  /\ IF verifyLinearSignature(Req(p).payload, Req(p).signature, LINEAR_WEBHOOK_SECRET)
     THEN proc' = [proc EXCEPT ![p].pc = "l_check",
                               ![p].webhookId = generateWebhookId(Req(p).payload, now)]
     ELSE proc' = [proc EXCEPT ![p] = Responded(401, "Invalid signature")]
  /\ UNCHANGED <<tables, outbox, now, deliveries, bindings, faults, calls, handled>>

LinearCheck(p) ==
  /\ proc[p].pc = "l_check"
  /\ IF isWebhookProcessed(processed_webhooks, proc[p].webhookId, "linear")
     THEN proc' = [proc EXCEPT ![p] = Responded(200, "already_processed")]
     ELSE proc' = [proc EXCEPT ![p].pc = "l_mark"]
  /\ UNCHANGED <<tables, outbox, now, deliveries, bindings, faults, calls, handled>>

LinearMark(p) ==
  /\ proc[p].pc = "l_mark"
  /\ processed_webhooks' =
       markWebhookProcessed(processed_webhooks, proc[p].webhookId, "linear")
  /\ deliveries' = deliveries + 1
  /\ proc' = [proc EXCEPT ![p].pc = "l_route"]
  /\ UNCHANGED <<handlerTables, outbox, now, bindings, faults, calls, handled>>

LinearRoute(p) ==
  /\ proc[p].pc = "l_route"
  /\ LET payload == Req(p).payload
     IN  proc' =
           [proc EXCEPT ![p] =
              IF isAgentSessionWebhook(payload)
              THEN IF payload.action = "created" THEN [@ EXCEPT !.pc = "sc_token"]
                   ELSE IF payload.action = "prompted" THEN [@ EXCEPT !.pc = "sp_token"]
                   ELSE Responded(200, "ok")
              ELSE IF isUnassignWebhook(payload) THEN [@ EXCEPT !.pc = "un_log"]
              ELSE Responded(200, "ok")]
  /\ handled' = Append(handled, <<proc[p].webhookId, "linear">>)
  /\ UNCHANGED <<tables, outbox, now, deliveries, bindings, faults, calls>>

\* The catch block: db.logEvent of a webhook_error inside its own try/catch
\* (the write may fail), then the answer, which is the same either way.
LinearCatch(p) ==
  /\ proc[p].pc = "l_catch"
  /\ LET payload == Req(p).payload
         sessionId == IF isAgentSessionWebhook(payload)
                      THEN payload.agentSession.id ELSE None
     IN  \/ run_log' = logEvent(run_log,
                                LogRow("webhook_error", sessionId, Null, proc[p].error))
         \/ UNCHANGED run_log
  /\ proc' = [proc EXCEPT ![p] = Responded(200, "error")]
  /\ UNCHANGED <<processed_webhooks, pending_workflow_triggers, workflow_runs, cfgTables,
                 autoinc, outbox, now, deliveries, bindings, faults, calls, handled>>

\* --------------------------------------------- handlers/session-created.ts
ScToken(p) ==
  /\ proc[p].pc = "sc_token"
  /\ proc' = [proc EXCEPT ![p] =
                IF getOAuthToken(oauth_tokens, Req(p).payload.organizationId)
                THEN [@ EXCEPT !.pc = "sc_log"]
                ELSE Responded(200, "ok")]
  /\ UNCHANGED <<tables, outbox, now, deliveries, bindings, faults, calls, handled>>

ScLog(p) ==
  /\ proc[p].pc = "sc_log"
  /\ run_log' = logEvent(run_log,
                         LogRow("session_created", Req(p).payload.agentSession.id, Null,
                                Req(p).payload.agentSession.issue.id))
  /\ proc' = [proc EXCEPT ![p].pc = "sc_ack"]
  /\ UNCHANGED <<processed_webhooks, pending_workflow_triggers, workflow_runs, cfgTables,
                 autoinc, outbox, now, deliveries, bindings, faults, calls, handled>>

\* linear.sendThought('Looking at this issue...') inside try/catch
ScAck(p) ==
  /\ proc[p].pc = "sc_ack"
  /\ LET call == LinearCall("thought", Req(p).payload.agentSession.id, "Looking")
     IN  \/ /\ outbox' = CallOk(call)
            /\ proc' = [proc EXCEPT ![p].pc = "sc_config"]
            /\ UNCHANGED faults
         \/ /\ faults < MaxFaults
            /\ outbox' = CallFailed(call)
            /\ faults' = faults + 1
            /\ proc' = [proc EXCEPT ![p].pc = "sc_ack_failed"]
  /\ UNCHANGED <<tables, now, deliveries, bindings, calls, handled>>

\* Variant: a catch block that logs and does not rethrow.
ScAckFailedNoRethrow(p) ==
  /\ proc[p].pc = "sc_ack_failed"
  /\ run_log' = logEvent(run_log,
                         LogRow("error", Req(p).payload.agentSession.id, Null,
                                "Failed to send thought"))
  /\ proc' = [proc EXCEPT ![p].pc = "sc_config"]
  /\ UNCHANGED <<processed_webhooks, pending_workflow_triggers, workflow_runs, cfgTables,
                 autoinc, outbox, now, deliveries, bindings, faults, calls, handled>>

\* catch (error): db.logEvent of an 'error' entry, then throw error
ScAckFailed(p) ==
  /\ proc[p].pc = "sc_ack_failed"
  /\ run_log' = logEvent(run_log,
                         LogRow("error", Req(p).payload.agentSession.id, Null,
                                "Failed to send thought"))
  /\ proc' = [proc EXCEPT ![p] = Thrown(@, "Linear API error")]
  /\ UNCHANGED <<processed_webhooks, pending_workflow_triggers, workflow_runs, cfgTables,
                 autoinc, outbox, now, deliveries, bindings, faults, calls, handled>>

\* The arguments of one call of WorkflowService.triggerImplementation.
DispatchArgs(agentSessionId, issueId, issueIdentifier, config) ==
  [agentSessionId |-> agentSessionId, issueId |-> issueId,
   issueIdentifier |-> issueIdentifier, config |-> config]

\* Variant: the test handleSessionPrompted makes, on the owner alone.
TeamUnconfiguredOwnerOnly(config) == config.github_owner = <<>>

\* !config.github_owner || !config.github_repo, for a row that was found
TeamUnconfigured(config) ==
  config.github_owner = <<>> \/ config.github_repo = <<>>

\* db.getTeamConfigByWorkspace and the branch on it
ScConfig(p) ==
  /\ proc[p].pc = "sc_config"
  /\ LET payload == Req(p).payload
         issue == payload.agentSession.issue
         found == getTeamConfigByWorkspace(team_configs, payload.organizationId,
                                           issue.team.id)
     IN  IF found = {}
         THEN proc' = [proc EXCEPT ![p].pc = "sc_pending"]
         ELSE \E config \in found :
                proc' =
                  [proc EXCEPT ![p] =
                     IF TeamUnconfigured(config)
                     THEN [@ EXCEPT !.pc = "sc_pending"]
                     ELSE [@ EXCEPT !.pc = "ti_check",
                                    !.dispatch = Some(DispatchArgs(payload.agentSession.id,
                                                   issue.id, issue.identifier, config))]]
  /\ UNCHANGED <<tables, outbox, now, deliveries, bindings, faults, calls, handled>>

\* db.createPendingConfig
ScPending(p) ==
  /\ proc[p].pc = "sc_pending"
  /\ LET payload == Req(p).payload
         issue == payload.agentSession.issue
     IN  pending_configs' =
           createPendingConfig(pending_configs,
             [agentSessionId |-> payload.agentSession.id,
              linearWorkspaceId |-> payload.organizationId,
              linearTeamId |-> issue.team.id,
              pendingIssueId |-> issue.id,
              pendingIssueIdentifier |-> issue.identifier])
  /\ proc' = [proc EXCEPT ![p].pc = "sc_ask"]
  /\ UNCHANGED <<processed_webhooks, pending_workflow_triggers, workflow_runs, team_configs,
                 github_installations, oauth_tokens, run_log, autoinc, outbox, now,
                 deliveries, bindings, faults, calls, handled>>

\* linear.sendElicitation('... Which GitHub repository should I use? ...')
ScAsk(p) ==
  /\ proc[p].pc = "sc_ask"
  /\ LET call == LinearCall("elicitation", Req(p).payload.agentSession.id, "which_repository")
     IN  \/ /\ outbox' = CallOk(call)
            /\ proc' = [proc EXCEPT ![p] = Responded(200, "ok")]
            /\ UNCHANGED faults
         \/ /\ faults < MaxFaults
            /\ outbox' = CallFailed(call)
            /\ faults' = faults + 1
            /\ proc' = [proc EXCEPT ![p] = Thrown(@, "Linear API error")]
  /\ UNCHANGED <<tables, now, deliveries, bindings, calls, handled>>

\* ------------------------------------------------- services/workflow.ts
Dispatch(p) == Val(proc[p].dispatch)

\* The branch lists github.listBranches may return.
BranchWorlds ==
  {<<>>, <<DispatchBranch, generateBranchName(IssueOf("s1").identifier)>>}

\* Variant: the guard without the installation id.
ConfigIncompleteNoInstallation(config) ==
  config.github_owner = <<>> \/ config.github_repo = <<>>

\* !config.github_owner || !config.github_repo || !config.github_installation_id
ConfigIncomplete(config) ==
  \/ config.github_owner = <<>>
  \/ config.github_repo = <<>>
  \/ IsNull(config.github_installation_id)

\* triggerImplementation: the guard on the team config
TiCheck(p) ==
  /\ proc[p].pc = "ti_check"
  /\ LET config == Dispatch(p).config
     IN  proc' =
           [proc EXCEPT ![p] =
              IF ConfigIncomplete(config)
              THEN Thrown(@, "Team config missing GitHub configuration")
              ELSE [@ EXCEPT !.pc = "ti_context"]]
  /\ UNCHANGED <<tables, outbox, now, deliveries, bindings, faults, calls, handled>>

\* triggerImplementation: linear.getIssueContext
TiContext(p) ==
  /\ proc[p].pc = "ti_context"
  /\ LET call == LinearCall("getIssueContext", Dispatch(p).issueId, "context")
     IN  \/ /\ outbox' = CallOk(call)
            /\ proc' = [proc EXCEPT ![p].pc = "ti_branches"]
            /\ UNCHANGED faults
         \/ /\ faults < MaxFaults
            /\ outbox' = CallFailed(call)
            /\ faults' = faults + 1
            /\ proc' = [proc EXCEPT ![p] = Thrown(@, "Linear API error")]
  /\ UNCHANGED <<tables, now, deliveries, bindings, calls, handled>>

\* triggerImplementation: github.listBranches, then findAvailableBranchName
TiBranches(p) ==
  /\ proc[p].pc = "ti_branches"
  /\ LET call == GitHubCall("listBranches", Dispatch(p).config.github_repo, "branches")
     IN  \/ /\ \E existingBranches \in BranchWorlds :
                 proc' = [proc EXCEPT
                            ![p].pc = "ti_log",
                            ![p].branchName =
                               findAvailableBranchName(Dispatch(p).issueIdentifier,
                                                       existingBranches)]
            /\ outbox' = CallOk(call)
            /\ UNCHANGED faults
         \/ /\ faults < MaxFaults
            /\ outbox' = CallFailed(call)
            /\ faults' = faults + 1
            /\ proc' = [proc EXCEPT ![p] = Thrown(@, "GitHub API error")]
  /\ UNCHANGED <<tables, now, deliveries, bindings, calls, handled>>

\* triggerImplementation: db.logEvent
TiLog(p) ==
  /\ proc[p].pc = "ti_log"
  /\ run_log' = logEvent(run_log,
                         LogRow("workflow_trigger", Dispatch(p).agentSessionId, Null,
                                proc[p].branchName))
  /\ proc' = [proc EXCEPT ![p].pc = "ti_starting"]
  /\ UNCHANGED <<processed_webhooks, pending_workflow_triggers, workflow_runs, cfgTables,
                 autoinc, outbox, now, deliveries, bindings, faults, calls, handled>>

\* triggerImplementation: linear.sendAction('Starting', 'Implementation workflow')
TiStarting(p) ==
  /\ proc[p].pc = "ti_starting"
  /\ LET call == LinearCall("action", Dispatch(p).agentSessionId, "Starting")
     IN  \/ /\ outbox' = CallOk(call)
            /\ proc' = [proc EXCEPT ![p].pc = "ti_pending"]
            /\ UNCHANGED faults
         \/ /\ faults < MaxFaults
            /\ outbox' = CallFailed(call)
            /\ faults' = faults + 1
            /\ proc' = [proc EXCEPT ![p] = Thrown(@, "Linear API error")]
  /\ UNCHANGED <<tables, now, deliveries, bindings, calls, handled>>

\* The argument triggerImplementation gives db.createPendingWorkflowTrigger:
\* branchName is the team's dispatch branch, not the feature branch.
TriggerFromDispatch(d) ==
  [agentSessionId |-> d.agentSessionId,
   linearWorkspaceId |-> d.config.linear_workspace_id,
   linearIssueId |-> d.issueId,
   linearIssueIdentifier |-> d.issueIdentifier,
   workflowType |-> "implement",
   githubOwner |-> d.config.github_owner,
   githubRepo |-> d.config.github_repo,
   branchName |-> d.config.github_branch]

\* triggerImplementation: db.createPendingWorkflowTrigger
TiPending(p) ==
  /\ proc[p].pc = "ti_pending"
  /\ pending_workflow_triggers' =
       createPendingWorkflowTrigger(pending_workflow_triggers,
                                    autoinc.pending_workflow_triggers, now,
                                    TriggerFromDispatch(Dispatch(p)))
  /\ autoinc' = [autoinc EXCEPT !.pending_workflow_triggers = @ + 1]
  /\ proc' = [proc EXCEPT ![p].pc = "ti_dispatch"]
  /\ UNCHANGED <<processed_webhooks, workflow_runs, cfgTables, run_log, outbox, now,
                 deliveries, bindings, faults, calls, handled>>

\* triggerImplementation: github.triggerWorkflow on the dispatch branch, with
\* the feature branch among the inputs
TiDispatch(p) ==
  /\ proc[p].pc = "ti_dispatch"
  /\ LET d == Dispatch(p)
         call == GitHubCall("triggerWorkflow", d.config.github_repo,
                            [ref |-> d.config.github_branch,
                             agent_session_id |-> d.agentSessionId,
                             ticket_id |-> d.issueIdentifier,
                             branch_name |-> proc[p].branchName])
     IN  \/ /\ outbox' = CallOk(call)
            /\ proc' = [proc EXCEPT ![p] = Responded(200, "ok")]
            /\ UNCHANGED faults
         \/ /\ faults < MaxFaults
            /\ outbox' = CallFailed(call)
            /\ faults' = faults + 1
            /\ proc' = [proc EXCEPT ![p] = Thrown(@, "GitHub API error")]
  /\ UNCHANGED <<tables, now, deliveries, bindings, calls, handled>>

\* ------------------------------------------- handlers/inbox-notification.ts
UnLog(p) ==
  /\ proc[p].pc = "un_log"
  /\ run_log' = logEvent(run_log,
                         LogRow("agent_unassigned", None, Null,
                                Req(p).payload.notification.issue.id))
  /\ proc' = [proc EXCEPT ![p].pc = "un_active"]
  /\ UNCHANGED <<processed_webhooks, pending_workflow_triggers, workflow_runs, cfgTables,
                 autoinc, outbox, now, deliveries, bindings, faults, calls, handled>>

\* db.getActiveWorkflowRunByIssue
UnActive(p) ==
  /\ proc[p].pc = "un_active"
  /\ LET found == getActiveWorkflowRunByIssue(workflow_runs,
                                              Req(p).payload.notification.issue.id)
     IN  IF found = {}
         THEN proc' = [proc EXCEPT ![p] = Responded(200, "ok")]
         ELSE \E r \in found :
                proc' = [proc EXCEPT ![p].pc = "un_install", ![p].workflowRun = Some(r)]
  /\ UNCHANGED <<tables, outbox, now, deliveries, bindings, faults, calls, handled>>

\* db.getGitHubInstallationByAccount, then the check of the run's workspace id
UnInstall(p) ==
  /\ proc[p].pc = "un_install"
  /\ LET run == Val(proc[p].workflowRun)
         found == getGitHubInstallationByAccount(github_installations, run.github_owner)
     IN  IF found = {} \/ run.linear_workspace_id = None
         THEN proc' = [proc EXCEPT ![p] = Responded(200, "ok")]
         ELSE \E installation \in found :
                proc' = [proc EXCEPT ![p].pc = "un_token",
                                     ![p].installationId = Some(installation.installation_id)]
  /\ UNCHANGED <<tables, outbox, now, deliveries, bindings, faults, calls, handled>>

UnToken(p) ==
  /\ proc[p].pc = "un_token"
  /\ proc' = [proc EXCEPT ![p] =
                IF getOAuthToken(oauth_tokens, Val(proc[p].workflowRun).linear_workspace_id)
                THEN [@ EXCEPT !.pc = "cw_cancel"]
                ELSE Responded(200, "ok")]
  /\ UNCHANGED <<tables, outbox, now, deliveries, bindings, faults, calls, handled>>

\* cancelWorkflow: github.cancelWorkflowRun; 202 and 409 (already finished)
\* both return, any other status throws
CwCancel(p) ==
  /\ proc[p].pc = "cw_cancel"
  /\ LET call == GitHubCall("cancelWorkflowRun", Val(proc[p].workflowRun).github_run_id,
                            "cancel")
     IN  \/ /\ \E status \in {202, 409} :
                 outbox' = CallOk([call EXCEPT !.arg = status])
            /\ proc' = [proc EXCEPT ![p].pc = "cw_update"]
            /\ UNCHANGED faults
         \/ /\ faults < MaxFaults
            /\ outbox' = CallFailed(call)
            /\ faults' = faults + 1
            /\ proc' = [proc EXCEPT ![p] = Thrown(@, "Failed to cancel workflow")]
  /\ UNCHANGED <<tables, now, deliveries, bindings, calls, handled>>

\* cancelWorkflow: db.updateWorkflowRun
CwUpdate(p) ==
  /\ proc[p].pc = "cw_update"
  /\ workflow_runs' =
       updateWorkflowRun(workflow_runs, Val(proc[p].workflowRun).github_run_id,
                         [status |-> "completed", conclusion |-> "cancelled"])
  /\ proc' = [proc EXCEPT ![p].pc = "cw_notify"]
  /\ UNCHANGED <<processed_webhooks, pending_workflow_triggers, cfgTables, run_log,
                 autoinc, outbox, now, deliveries, bindings, faults, calls, handled>>

\* cancelWorkflow: linear.sendThought('Workflow cancelled')
CwNotify(p) ==
  /\ proc[p].pc = "cw_notify"
  /\ LET call == LinearCall("thought", Val(proc[p].workflowRun).agent_session_id,
                            "Workflow cancelled")
     IN  \/ /\ outbox' = CallOk(call)
            /\ proc' = [proc EXCEPT ![p].pc = "cw_log"]
            /\ UNCHANGED faults
         \/ /\ faults < MaxFaults
            /\ outbox' = CallFailed(call)
            /\ faults' = faults + 1
            /\ proc' = [proc EXCEPT ![p] = Thrown(@, "Linear API error")]
  /\ UNCHANGED <<tables, now, deliveries, bindings, calls, handled>>

\* cancelWorkflow: db.logEvent
CwLog(p) ==
  /\ proc[p].pc = "cw_log"
  /\ run_log' = logEvent(run_log,
                         LogRow("workflow_cancelled",
                                Val(proc[p].workflowRun).agent_session_id, Null, "unassign"))
  /\ proc' = [proc EXCEPT ![p].pc = "un_cleanup"]
  /\ UNCHANGED <<processed_webhooks, pending_workflow_triggers, workflow_runs, cfgTables,
                 autoinc, outbox, now, deliveries, bindings, faults, calls, handled>>

\* db.deletePendingConfig for the cancelled run's session
UnCleanup(p) ==
  /\ proc[p].pc = "un_cleanup"
  /\ pending_configs' =
       deletePendingConfig(pending_configs, Val(proc[p].workflowRun).agent_session_id)
  /\ proc' = [proc EXCEPT ![p] = Responded(200, "ok")]
  /\ UNCHANGED <<processed_webhooks, pending_workflow_triggers, workflow_runs, team_configs,
                 github_installations, oauth_tokens, run_log, autoinc, outbox, now,
                 deliveries, bindings, faults, calls, handled>>

\* -------------------------------------------- handlers/session-prompted.ts
\* content?.body || agentActivity?.body || ''
UserMessage(payload) ==
  IF payload.agentActivity.contentBody # <<>>
  THEN payload.agentActivity.contentBody
  ELSE payload.agentActivity.body

\* [a-zA-Z0-9_.-]
RepoChar(c) ==
  c \in Range(LowerLetters) \cup Range(UpperLetters) \cup Range(Digits) \cup {"_", ".", "-"}

\* The last position of the longest run of [a-zA-Z0-9_.-] that starts at i
\* (i - 1 when str[i] is not in the class).
RECURSIVE RunEnd(_, _)
RunEnd(str, i) ==
  IF i <= Len(str) /\ RepoChar(str[i]) THEN RunEnd(str, i + 1) ELSE i - 1

\* Whether /([a-zA-Z0-9_.-]+)\/([a-zA-Z0-9_.-]+)/ matches starting at s.
RepoMatchAt(str, s) ==
  LET e == RunEnd(str, s)
  IN  /\ e >= s
      /\ e + 2 <= Len(str)
      /\ str[e + 1] = "/"
      /\ RepoChar(str[e + 2])

\* Variant: a pattern without the slash and the second group; the first
\* token of the message is taken for both owner and repository.
RepoMatchFirstToken(str) ==
  LET starts == {s \in 1..Len(str) : RunEnd(str, s) >= s}
  IN  IF starts = {}
      THEN Null
      ELSE LET s == CHOOSE x \in starts : \A y \in starts : x <= y
           IN  Some([owner |-> SubSeq(str, s, RunEnd(str, s)),
                     repo |-> SubSeq(str, s, RunEnd(str, s))])

\* userMessage.match(...): the leftmost match, both groups greedy; Null
\* when there is none.
RepoMatch(str) ==
  LET starts == {s \in 1..Len(str) : RepoMatchAt(str, s)}
  IN  IF starts = {}
      THEN Null
      ELSE LET s == CHOOSE x \in starts : \A y \in starts : x <= y
               e == RunEnd(str, s)
           IN  Some([owner |-> SubSeq(str, s, e),
                     repo |-> SubSeq(str, e + 2, RunEnd(str, e + 2))])

WorkKeywords ==
  {<<"i", "m", "p", "l", "e", "m", "e", "n", "t">>, <<"w", "o", "r", "k", " ", "o", "n">>,
   <<"f", "i", "x">>, <<"a", "d", "d">>, <<"u", "p", "d", "a", "t", "e">>,
   <<"c", "h", "a", "n", "g", "e">>}
StatusKeywords ==
  {<<"s", "t", "a", "t", "u", "s">>, <<"p", "r", "o", "g", "r", "e", "s", "s">>,
   <<"h", "o", "w", "'", "s", " ", "i", "t", " ", "g", "o", "i", "n", "g">>}

\* Variant: the status keywords tested before the work keywords.
IntentStatusFirst(userMessage) ==
  LET lowerMessage == toLowerCase(userMessage)
  IN  IF \E k \in StatusKeywords : Includes(lowerMessage, k) THEN "status"
      ELSE IF \E k \in WorkKeywords : Includes(lowerMessage, k) THEN "work"
      ELSE "unclear"

\* The branch handleSessionPrompted takes on the lower-cased message.
Intent(userMessage) ==
  LET lowerMessage == toLowerCase(userMessage)
  IN  IF \E k \in WorkKeywords : Includes(lowerMessage, k) THEN "work"
      ELSE IF \E k \in StatusKeywords : Includes(lowerMessage, k) THEN "status"
      ELSE "unclear"

SpToken(p) ==
  /\ proc[p].pc = "sp_token"
  /\ proc' = [proc EXCEPT ![p] =
                IF getOAuthToken(oauth_tokens, Req(p).payload.organizationId)
                THEN [@ EXCEPT !.pc = "sp_log"]
                ELSE Responded(200, "ok")]
  /\ UNCHANGED <<tables, outbox, now, deliveries, bindings, faults, calls, handled>>

SpLog(p) ==
  /\ proc[p].pc = "sp_log"
  /\ run_log' = logEvent(run_log,
                         LogRow("session_prompted", Req(p).payload.agentSession.id, Null,
                                Req(p).payload.agentSession.issue.id))
  /\ proc' = [proc EXCEPT ![p].pc = "sp_pending"]
  /\ UNCHANGED <<processed_webhooks, pending_workflow_triggers, workflow_runs, cfgTables,
                 autoinc, outbox, now, deliveries, bindings, faults, calls, handled>>

\* db.getPendingConfig; with a row, handleConfigResponse parses the message
SpPending(p) ==
  /\ proc[p].pc = "sp_pending"
  /\ LET found == getPendingConfig(pending_configs, Req(p).payload.agentSession.id)
         repoMatch == RepoMatch(UserMessage(Req(p).payload))
     IN  IF found = {}
         THEN proc' = [proc EXCEPT ![p].pc = "sp_active"]
         ELSE \E pendingConfig \in found :
                proc' = [proc EXCEPT
                           ![p].pendingConfig = Some(pendingConfig),
                           ![p].repo = repoMatch,
                           ![p].pc = IF IsNull(repoMatch) THEN "cr_reject" ELSE "cr_install"]
  /\ UNCHANGED <<tables, outbox, now, deliveries, bindings, faults, calls, handled>>

\* db.getActiveWorkflowRunByIssue
SpActive(p) ==
  /\ proc[p].pc = "sp_active"
  /\ LET found == getActiveWorkflowRunByIssue(workflow_runs,
                                              Req(p).payload.agentSession.issue.id)
     IN  IF found = {}
         THEN proc' = [proc EXCEPT ![p].pc = "sp_config"]
         ELSE \E r \in found :
                proc' = [proc EXCEPT ![p].pc = "sp_progress", ![p].workflowRun = Some(r)]
  /\ UNCHANGED <<tables, outbox, now, deliveries, bindings, faults, calls, handled>>

\* A reply activity sent as the handler's last step.
Reply(p, call) ==
  /\ \/ /\ outbox' = CallOk(call)
        /\ proc' = [proc EXCEPT ![p] = Responded(200, "ok")]
        /\ UNCHANGED faults
     \/ /\ faults < MaxFaults
        /\ outbox' = CallFailed(call)
        /\ faults' = faults + 1
        /\ proc' = [proc EXCEPT ![p] = Thrown(@, "Linear API error")]
  /\ UNCHANGED <<tables, now, deliveries, bindings, calls, handled>>

\* linear.sendThought('The implementation workflow <status>. ...')
SpProgress(p) ==
  /\ proc[p].pc = "sp_progress"
  /\ Reply(p, LinearCall("thought", Req(p).payload.agentSession.id,
                         Val(proc[p].workflowRun).status))

\* db.getTeamConfigByWorkspace, then the branch on the config and the message
SpConfig(p) ==
  /\ proc[p].pc = "sp_config"
  /\ LET payload == Req(p).payload
         issue == payload.agentSession.issue
         found == getTeamConfigByWorkspace(team_configs, payload.organizationId,
                                           issue.team.id)
         intent == Intent(UserMessage(payload))
     IN  IF found = {}
         THEN proc' = [proc EXCEPT ![p].pc = "sp_unconfigured"]
         ELSE \E config \in found :
                proc' =
                  [proc EXCEPT ![p] =
                     IF config.github_owner = <<>>
                     THEN [@ EXCEPT !.pc = "sp_unconfigured"]
                     ELSE IF intent = "work"
                     THEN [@ EXCEPT !.pc = "sp_starting",
                                    !.dispatch = Some(DispatchArgs(payload.agentSession.id,
                                                   issue.id, issue.identifier, config))]
                     ELSE IF intent = "status" THEN [@ EXCEPT !.pc = "sp_status"]
                     ELSE [@ EXCEPT !.pc = "sp_unclear"]]
  /\ UNCHANGED <<tables, outbox, now, deliveries, bindings, faults, calls, handled>>

\* linear.sendElicitation("It looks like this team isn't configured yet. ...")
SpUnconfigured(p) ==
  /\ proc[p].pc = "sp_unconfigured"
  /\ Reply(p, LinearCall("elicitation", Req(p).payload.agentSession.id, "not_configured"))

\* linear.sendThought('Starting a new implementation...')
SpStarting(p) ==
  /\ proc[p].pc = "sp_starting"
  /\ LET call == LinearCall("thought", Req(p).payload.agentSession.id, "Starting new")
     IN  \/ /\ outbox' = CallOk(call)
            /\ proc' = [proc EXCEPT ![p].pc = "ti_check"]
            /\ UNCHANGED faults
         \/ /\ faults < MaxFaults
            /\ outbox' = CallFailed(call)
            /\ faults' = faults + 1
            /\ proc' = [proc EXCEPT ![p] = Thrown(@, "Linear API error")]
  /\ UNCHANGED <<tables, now, deliveries, bindings, calls, handled>>

\* linear.sendResponse("I don't have any active work on this ticket. ...")
SpStatus(p) ==
  /\ proc[p].pc = "sp_status"
  /\ Reply(p, LinearCall("response", Req(p).payload.agentSession.id, "no_active_work"))

\* linear.sendElicitation("I'm not sure what you'd like me to do. ...")
SpUnclear(p) ==
  /\ proc[p].pc = "sp_unclear"
  /\ Reply(p, LinearCall("elicitation", Req(p).payload.agentSession.id, "unclear"))

\* handleConfigResponse: no owner/repo in the message
CrReject(p) ==
  /\ proc[p].pc = "cr_reject"
  /\ Reply(p, LinearCall("elicitation", Val(proc[p].pendingConfig).agent_session_id,
                         "could_not_parse"))

\* handleConfigResponse: github.getRepoInstallation, which answers with the
\* installation id, with null (404: the app is not installed) or throws
CrInstall(p) ==
  /\ proc[p].pc = "cr_install"
  /\ LET call == GitHubCall("getRepoInstallation", Val(proc[p].repo).repo, "installation")
     IN  \/ /\ \E installationId \in {Null} \cup {Some(i) : i \in InstallationIds} :
                 proc' = [proc EXCEPT
                            ![p].installationId = installationId,
                            ![p].pc = IF IsNull(installationId)
                                      THEN "cr_no_access" ELSE "cr_default"]
            /\ outbox' = CallOk(call)
            /\ UNCHANGED faults
         \/ /\ faults < MaxFaults
            /\ outbox' = CallFailed(call)
            /\ faults' = faults + 1
            /\ proc' = [proc EXCEPT ![p] = Thrown(@, "GitHub API error")]
  /\ UNCHANGED <<tables, now, deliveries, bindings, calls, handled>>

\* linear.sendElicitation("I don't have access to `owner/repo` yet. ...")
CrNoAccess(p) ==
  /\ proc[p].pc = "cr_no_access"
  /\ Reply(p, LinearCall("elicitation", Val(proc[p].pendingConfig).agent_session_id,
                         "install_app"))

\* handleConfigResponse: github.getDefaultBranch
CrDefault(p) ==
  /\ proc[p].pc = "cr_default"
  /\ LET call == GitHubCall("getDefaultBranch", Val(proc[p].repo).repo, "default_branch")
     IN  \/ /\ outbox' = CallOk(call)
            /\ proc' = [proc EXCEPT ![p].pc = "cr_upsert", ![p].branchName = DispatchBranch]
            /\ UNCHANGED faults
         \/ /\ faults < MaxFaults
            /\ outbox' = CallFailed(call)
            /\ faults' = faults + 1
            /\ proc' = [proc EXCEPT ![p] = Thrown(@, "GitHub API error")]
  /\ UNCHANGED <<tables, now, deliveries, bindings, calls, handled>>

\* handleConfigResponse: db.upsertGitHubInstallation
CrUpsert(p) ==
  /\ proc[p].pc = "cr_upsert"
  /\ github_installations' =
       upsertGitHubInstallation(github_installations,
                                [installationId |-> Val(proc[p].installationId),
                                 accountLogin |-> Val(proc[p].repo).owner,
                                 accountType |-> "User"])
  /\ proc' = [proc EXCEPT ![p].pc = "cr_create"]
  /\ UNCHANGED <<processed_webhooks, pending_workflow_triggers, workflow_runs, team_configs,
                 pending_configs, oauth_tokens, run_log, autoinc, outbox, now, deliveries,
                 bindings, faults, calls, handled>>

\* handleConfigResponse: db.createTeamConfig, a plain INSERT
CrCreate(p) ==
  /\ proc[p].pc = "cr_create"
  /\ LET pendingConfig == Val(proc[p].pendingConfig)
         config == NewTeamConfig([linearWorkspaceId |-> pendingConfig.linear_workspace_id,
                                  linearTeamId |-> pendingConfig.linear_team_id,
                                  githubInstallationId |-> proc[p].installationId,
                                  githubOwner |-> Val(proc[p].repo).owner,
                                  githubRepo |-> Val(proc[p].repo).repo,
                                  githubBranch |-> proc[p].branchName])
     IN  IF TeamConfigConflict(team_configs, pendingConfig.linear_workspace_id,
                               pendingConfig.linear_team_id)
         THEN /\ proc' = [proc EXCEPT ![p] = Thrown(@, "UNIQUE constraint failed")]
              /\ UNCHANGED team_configs
         ELSE /\ team_configs' = team_configs \cup {config}
              /\ proc' = [proc EXCEPT ![p].pc = "cr_delete", ![p].config = Some(config)]
  /\ UNCHANGED <<processed_webhooks, pending_workflow_triggers, workflow_runs, pending_configs,
                 github_installations, oauth_tokens, run_log, autoinc, outbox, now,
                 deliveries, bindings, faults, calls, handled>>

\* handleConfigResponse: db.deletePendingConfig
CrDelete(p) ==
  /\ proc[p].pc = "cr_delete"
  /\ pending_configs' =
       deletePendingConfig(pending_configs, Val(proc[p].pendingConfig).agent_session_id)
  /\ proc' = [proc EXCEPT ![p].pc = "cr_notify"]
  /\ UNCHANGED <<processed_webhooks, pending_workflow_triggers, workflow_runs, team_configs,
                 github_installations, oauth_tokens, run_log, autoinc, outbox, now,
                 deliveries, bindings, faults, calls, handled>>

\* handleConfigResponse: linear.sendThought('Configured! ...')
CrNotify(p) ==
  /\ proc[p].pc = "cr_notify"
  /\ LET call == LinearCall("thought", Val(proc[p].pendingConfig).agent_session_id,
                            "Configured")
     IN  \/ /\ outbox' = CallOk(call)
            /\ proc' = [proc EXCEPT ![p].pc = "cr_log"]
            /\ UNCHANGED faults
         \/ /\ faults < MaxFaults
            /\ outbox' = CallFailed(call)
            /\ faults' = faults + 1
            /\ proc' = [proc EXCEPT ![p] = Thrown(@, "Linear API error")]
  /\ UNCHANGED <<tables, now, deliveries, bindings, calls, handled>>

\* handleConfigResponse: db.logEvent, then triggerImplementation for the
\* pending issue
CrLog(p) ==
  /\ proc[p].pc = "cr_log"
  /\ LET pendingConfig == Val(proc[p].pendingConfig)
     IN  /\ run_log' = logEvent(run_log,
                                LogRow("team_configured", pendingConfig.agent_session_id,
                                       Null, Val(proc[p].repo)))
         /\ proc' = [proc EXCEPT
                       ![p].pc = "ti_check",
                       ![p].dispatch =
                          Some(DispatchArgs(pendingConfig.agent_session_id,
                                            pendingConfig.pending_issue_id,
                                            pendingConfig.pending_issue_identifier,
                                            Val(proc[p].config)))]
  /\ UNCHANGED <<processed_webhooks, pending_workflow_triggers, workflow_runs, cfgTables,
                 autoinc, outbox, now, deliveries, bindings, faults, calls, handled>>

\* ------------------------------------------------------------------- clock
\* Time passes between two steps.
Tick ==
  /\ now < MaxClock
  /\ now' = now + 1
  /\ UNCHANGED <<tables, outbox, proc, deliveries, bindings, faults, calls, handled>>

\* ------------------------------------------------- the ledger, as an API
LedgerIds == {<<"e1">>, <<"e2">>, <<"e3">>}
Sources == {"linear", "github"}

\* One call of db.markWebhookProcessed(webhookId, webhookType).
LedgerMark(webhookId, webhookType) ==
  /\ Len(calls) < MaxLedgerCalls
  /\ processed_webhooks' = markWebhookProcessed(processed_webhooks, webhookId, webhookType)
  /\ calls' = Append(calls, <<webhookId, webhookType>>)
  /\ UNCHANGED <<handlerTables, outbox, now, proc, deliveries, bindings, faults, handled>>

\* ---------------------------------------------------------------- deliveries
Procs == {1, 2}

\* The signature headers a sender that knows the secret computes.
LinearSignature(payload) == HmacHex(LINEAR_WEBHOOK_SECRET, payload)
GitHubSignature(payload) == Sha256Prefix \o HmacHex(GITHUB_WEBHOOK_SECRET, payload)

\* Headers that do not verify: a digest under another secret, and no header
\* (read as '') or, for GitHub, the right digest without the sha256= prefix.
BadLinearSignatures(payload) ==
  {HmacHex("other-secret", payload), <<>>}
BadGitHubSignatures(payload) ==
  {Sha256Prefix \o HmacHex("other-secret", payload),
   HmacHex(GITHUB_WEBHOOK_SECRET, payload)}

LinearRequest(payload, signature) ==
  [endpoint |-> "linear", signature |-> signature, eventType |-> "", delivery |-> "",
   payload |-> payload]

GitHubRequest(eventType, delivery, payload, signature) ==
  [endpoint |-> "github", signature |-> signature, eventType |-> eventType,
   delivery |-> delivery, payload |-> payload]

\* Linear payloads
NoActivity == [id |-> "", contentBody |-> <<>>, body |-> <<>>]

SessionEvent(action, s, activity) ==
  [type |-> "AgentSessionEvent", action |-> action, organizationId |-> "w1",
   agentSession |-> [id |-> s, issue |-> IssueOf(s)], agentActivity |-> activity]

UnassignEvent(s) ==
  [type |-> "AppUserNotification", action |-> "issueUnassignedFromYou",
   organizationId |-> "w1",
   notification |-> [issue |-> [id |-> IssueOf(s).id, identifier |-> IssueOf(s).identifier]]]

OtherLinearEvent == [type |-> "Issue", action |-> "update", organizationId |-> "w1"]

\* The replies a user sends: a repository, a request for work, a question
\* about status, something else.
MsgRepo == <<"a", "/", "b">>
MsgFix == <<"F", "i", "x", " ", "i", "t">>
MsgStatus == <<"s", "t", "a", "t", "u", "s", "?">>
MsgOther == <<"h", "i">>

Activity(id, message) == [id |-> id, contentBody |-> message, body |-> <<>>]

\* GitHub payloads
\* workflow_run.name: the workflow the dispatch call names (linear-agent.yml),
\* and another workflow of the same repository.
AgentWorkflow == "linear-agent"
OtherWorkflow == "ci"

WorkflowRunEvent(action, runId, conclusion) ==
  [action |-> action,
   workflow_run |-> [id |-> runId, name |-> AgentWorkflow, conclusion |-> conclusion,
                     head_branch |-> DispatchBranch, owner |-> OwnerA, repo |-> RepoB],
   installation |-> [id |-> 7]]

\* A run of another workflow on the same owner, repository and branch, started
\* by something other than a dispatch of this worker (a push, a schedule).
ForeignRunEvent(action, runId, conclusion) ==
  [WorkflowRunEvent(action, runId, conclusion) EXCEPT !.workflow_run.name = OtherWorkflow]

InstallationEvent(action) ==
  [action |-> action,
   installation |-> [id |-> 7, account |-> [login |-> OwnerA, type |-> "User"]]]

PullRequestEvent == [action |-> "opened", number |-> 5]

\* The deliveries the two senders make.  A GitHub delivery carries the id the
\* sender gave the event (a redelivery is the same request again); one event
\* type is sent without the x-github-delivery header.
LinearPayloads ==
  {SessionEvent("created", "s1", NoActivity),
   SessionEvent("created", "s2", NoActivity),
   SessionEvent("prompted", "s1", Activity("p1", MsgRepo)),
   SessionEvent("prompted", "s1", Activity("p2", MsgFix)),
   SessionEvent("prompted", "s1", Activity("p3", MsgStatus)),
   SessionEvent("prompted", "s1", Activity("p4", MsgOther)),
   UnassignEvent("s1"),
   OtherLinearEvent}

GitHubDeliveries ==
  {<<"workflow_run", "d1", WorkflowRunEvent("requested", 101, None)>>,
   <<"workflow_run", "d2", WorkflowRunEvent("in_progress", 101, None)>>,
   <<"workflow_run", "d3", WorkflowRunEvent("completed", 101, "success")>>,
   <<"workflow_run", "d4", WorkflowRunEvent("completed", 101, "failure")>>,
   <<"workflow_run", "d5", WorkflowRunEvent("requested", 102, None)>>,
   <<"installation", "d6", InstallationEvent("created")>>,
   <<"installation", "d7", InstallationEvent("deleted")>>,
   <<"pull_request", "", PullRequestEvent>>}

SignedRequests ==
  {LinearRequest(payload, LinearSignature(payload)) : payload \in LinearPayloads}
  \cup {GitHubRequest(d[1], d[2], d[3], GitHubSignature(d[3])) : d \in GitHubDeliveries}

ForgedRequests ==
  {LinearRequest(SessionEvent("created", "s1", NoActivity), signature)
     : signature \in BadLinearSignatures(SessionEvent("created", "s1", NoActivity))}
  \cup {GitHubRequest("workflow_run", "d1", WorkflowRunEvent("requested", 101, None), signature)
          : signature \in BadGitHubSignatures(WorkflowRunEvent("requested", 101, None))}

Requests == SignedRequests \cup ForgedRequests

\* ------------------------------------------------------------ initial state
\* The team configuration a finished set-up leaves behind.
ConfiguredTeam ==
  NewTeamConfig([linearWorkspaceId |-> "w1", linearTeamId |-> "t1",
                 githubInstallationId |-> Some(7), githubOwner |-> OwnerA,
                 githubRepo |-> RepoB, githubBranch |-> DispatchBranch])

InstalledApp ==
  [installation_id |-> 7, account_login |-> OwnerA, account_type |-> "User"]

\* The worker after the OAuth flow of workspace w1: either no team is set up
\* yet, or team t1 is set up with its repository.
Init ==
  /\ processed_webhooks = {}
  /\ pending_workflow_triggers = {}
  /\ workflow_runs = {}
  /\ pending_configs = {}
  /\ oauth_tokens = {"w1"}
  /\ \/ team_configs = {} /\ github_installations = {}
     \/ team_configs = {ConfiguredTeam} /\ github_installations = {InstalledApp}
  /\ run_log = <<>>
  /\ autoinc = [pending_workflow_triggers |-> 1, workflow_runs |-> 1]
  /\ outbox = <<>>
  /\ now = 0
  /\ proc = [p \in Procs |-> IdleProc]
  /\ deliveries = 0
  /\ bindings = {}
  /\ faults = 0
  /\ calls = <<>>
  /\ handled = <<>>

\* ------------------------------------------------------------ specifications
EndpointStep(p) ==
  \/ GitHubVerify(p) \/ GitHubCheck(p) \/ GitHubMark(p) \/ GitHubRoute(p)
  \/ LinearVerify(p) \/ LinearCheck(p) \/ LinearMark(p) \/ LinearRoute(p)
  \/ LinearCatch(p)

WorkflowRunStep(p) ==
  \/ WrGet(p) \/ WrMatch(p) \/ WrCreate(p) \/ WrMarkMatched(p) \/ WrToken(p)
  \/ WrUpdate(p) \/ WrNotify(p)

CompletionStep(p) ==
  \/ WcList(p) \/ WcSearch(p) \/ WcUpdate(p) \/ WcAttach(p) \/ WcRespond(p) \/ WcLog(p)

InstallationStep(p) == InstApply(p) \/ InstLog(p)

SessionCreatedStep(p) ==
  \/ ScToken(p) \/ ScLog(p) \/ ScAck(p) \/ ScAckFailed(p) \/ ScConfig(p)
  \/ ScPending(p) \/ ScAsk(p)

DispatchStep(p) ==
  \/ TiCheck(p) \/ TiContext(p) \/ TiBranches(p) \/ TiLog(p) \/ TiStarting(p)
  \/ TiPending(p) \/ TiDispatch(p)

UnassignStep(p) ==
  \/ UnLog(p) \/ UnActive(p) \/ UnInstall(p) \/ UnToken(p)
  \/ CwCancel(p) \/ CwUpdate(p) \/ CwNotify(p) \/ CwLog(p) \/ UnCleanup(p)

SessionPromptedStep(p) ==
  \/ SpToken(p) \/ SpLog(p) \/ SpPending(p) \/ SpActive(p) \/ SpProgress(p)
  \/ SpConfig(p) \/ SpUnconfigured(p) \/ SpStarting(p) \/ SpStatus(p) \/ SpUnclear(p)

ConfigResponseStep(p) ==
  \/ CrReject(p) \/ CrInstall(p) \/ CrNoAccess(p) \/ CrDefault(p) \/ CrUpsert(p)
  \/ CrCreate(p) \/ CrDelete(p) \/ CrNotify(p) \/ CrLog(p)

Step(p) ==
  \/ EndpointStep(p) \/ WorkflowRunStep(p) \/ CompletionStep(p) \/ InstallationStep(p)
  \/ SessionCreatedStep(p) \/ DispatchStep(p) \/ UnassignStep(p)
  \/ SessionPromptedStep(p) \/ ConfigResponseStep(p)

\* Deliveries handled one at a time: a request arrives only when the one
\* before it has been answered.
Next ==
  \/ Tick
  \/ \E request \in Requests :
       \/ GitHubArrive(1, request, MaxDeliveries)
       \/ LinearArrive(1, request, MaxDeliveries)
  \/ Step(1)

Spec == Init /\ [][Next]_vars

\* Deliveries handled concurrently by two requests in flight, with the team
\* set up: the assignment of a ticket, a request for more work in the same
\* session, and the start of a run, each of which may be delivered twice.
ConcRequests ==
  {LinearRequest(SessionEvent("created", "s1", NoActivity),
                 LinearSignature(SessionEvent("created", "s1", NoActivity))),
   LinearRequest(SessionEvent("prompted", "s1", Activity("p2", MsgFix)),
                 LinearSignature(SessionEvent("prompted", "s1", Activity("p2", MsgFix)))),
   GitHubRequest("workflow_run", "d1", WorkflowRunEvent("requested", 101, None),
                 GitHubSignature(WorkflowRunEvent("requested", 101, None)))}

InitConc == Init /\ team_configs = {ConfiguredTeam}

ConcStep(p) ==
  \/ EndpointStep(p)
  \/ WrGet(p) \/ WrMatch(p) \/ WrCreate(p) \/ WrMarkMatched(p) \/ WrToken(p)
  \/ ScToken(p) \/ ScLog(p) \/ ScAck(p) \/ ScAckFailed(p) \/ ScConfig(p)
  \/ SpToken(p) \/ SpLog(p) \/ SpPending(p) \/ SpActive(p)
  \/ SpConfig(p) \/ SpStarting(p)
  \/ DispatchStep(p)

NextConc ==
  \/ Tick
  \/ \E p \in Procs :
       \/ \E request \in ConcRequests :
            \/ GitHubArrive(p, request, MaxConcDeliveries)
            \/ LinearArrive(p, request, MaxConcDeliveries)
       \/ ConcStep(p)

SpecConc == InitConc /\ [][NextConc]_vars

\* Session handling and dispatch, from every shape a team's row can have: the
\* columns github_owner, github_repo and github_installation_id are nullable,
\* and the handlers test each of them.  Only the ticket system delivers, one
\* request at a time; two sessions of the same team can each be asked for the
\* repository and each answer.
NoOwnerTeam == [ConfiguredTeam EXCEPT !.github_owner = <<>>]
NoRepoTeam == [ConfiguredTeam EXCEPT !.github_repo = <<>>]
NoInstallationTeam == [ConfiguredTeam EXCEPT !.github_installation_id = Null]

TeamWorlds ==
  {<<{}, {}>>,
   <<{ConfiguredTeam}, {InstalledApp}>>,
   <<{NoOwnerTeam}, {InstalledApp}>>,
   <<{NoRepoTeam}, {InstalledApp}>>,
   <<{NoInstallationTeam}, {}>>}

InitTeams ==
  /\ processed_webhooks = {}
  /\ pending_workflow_triggers = {}
  /\ workflow_runs = {}
  /\ pending_configs = {}
  /\ oauth_tokens = {"w1"}
  /\ \E world \in TeamWorlds :
       team_configs = world[1] /\ github_installations = world[2]
  /\ run_log = <<>>
  /\ autoinc = [pending_workflow_triggers |-> 1, workflow_runs |-> 1]
  /\ outbox = <<>>
  /\ now = 0
  /\ proc = [p \in Procs |-> IdleProc]
  /\ deliveries = 0
  /\ bindings = {}
  /\ faults = 0
  /\ calls = <<>>
  /\ handled = <<>>

TeamPayloads ==
  {SessionEvent("created", "s1", NoActivity),
   SessionEvent("created", "s2", NoActivity),
   SessionEvent("prompted", "s1", Activity("p1", MsgRepo)),
   SessionEvent("prompted", "s2", Activity("p5", MsgRepo)),
   SessionEvent("prompted", "s1", Activity("p2", MsgFix)),
   SessionEvent("prompted", "s1", Activity("p3", MsgStatus)),
   SessionEvent("prompted", "s1", Activity("p4", MsgOther))}

TeamRequests ==
  {LinearRequest(payload, LinearSignature(payload)) : payload \in TeamPayloads}

TeamStep(p) ==
  \/ LinearVerify(p) \/ LinearCheck(p) \/ LinearMark(p) \/ LinearRoute(p)
  \/ LinearCatch(p)
  \/ SessionCreatedStep(p) \/ DispatchStep(p)
  \/ SpToken(p) \/ SpLog(p) \/ SpPending(p) \/ SpActive(p) \/ SpConfig(p)
  \/ SpUnconfigured(p) \/ SpStarting(p) \/ SpStatus(p) \/ SpUnclear(p)
  \/ ConfigResponseStep(p)

NextTeams ==
  \/ \E request \in TeamRequests : LinearArrive(1, request, MaxTeamDeliveries)
  \/ TeamStep(1)

SpecTeams == InitTeams /\ [][NextTeams]_vars

\* The first set-up of a team, from the empty store: no team row and no
\* installation record exist, and the sessions of the team are created and
\* answered in any order.
InitSetup == InitTeams /\ team_configs = {}

NextSetup ==
  \/ \E request \in TeamRequests : LinearArrive(1, request, MaxSetupDeliveries)
  \/ TeamStep(1)

SpecSetup == InitSetup /\ [][NextSetup]_vars

\* The reports of one run, with the team set up: the ticket is assigned, and
\* the CI platform reports run 101 as started, running and, in two deliveries
\* with different ids, as completed with success.  It also reports the start
\* of run 103, a run of another workflow on the same branch.
RunRequests ==
  {LinearRequest(SessionEvent("created", "s1", NoActivity),
                 LinearSignature(SessionEvent("created", "s1", NoActivity)))}
  \cup {GitHubRequest("workflow_run", d[1], d[2], GitHubSignature(d[2])) :
          d \in {<<"d1", WorkflowRunEvent("requested", 101, None)>>,
                 <<"d2", WorkflowRunEvent("in_progress", 101, None)>>,
                 <<"d3", WorkflowRunEvent("completed", 101, "success")>>,
                 <<"d8", WorkflowRunEvent("completed", 101, "success")>>,
                 <<"d9", ForeignRunEvent("requested", 103, None)>>}}

InitRuns == Init /\ team_configs = {ConfiguredTeam}

RunsStep(p) ==
  \/ EndpointStep(p)
  \/ ScToken(p) \/ ScLog(p) \/ ScAck(p) \/ ScAckFailed(p) \/ ScConfig(p)
  \/ DispatchStep(p)
  \/ WorkflowRunStep(p) \/ CompletionStep(p)

NextRuns ==
  \/ \E request \in RunRequests :
       \/ GitHubArrive(1, request, MaxRunDeliveries)
       \/ LinearArrive(1, request, MaxRunDeliveries)
  \/ RunsStep(1)

SpecRuns == InitRuns /\ [][NextRuns]_vars

\* Follow-up messages in the session of a team that is set up, with no
\* PendingConfig and no run: each message names one marker, in some case and
\* position, both kinds of marker, or none.
IntentMessages ==
  <<<<"I", "m", "p", "l", "e", "m", "e", "n", "t", " ", "i", "t">>,
   <<"w", "o", "r", "k", " ", "o", "n">>,
   <<"F", "I", "X">>,
   <<"a", "d", "d">>,
   <<"U", "p", "d", "a", "t", "e">>,
   <<"c", "h", "a", "n", "g", "e">>,
   <<"p", "r", "e", "f", "i", "x">>,
   <<"S", "t", "a", "t", "u", "s">>,
   <<"p", "r", "o", "g", "r", "e", "s", "s">>,
   <<"H", "o", "w", "'", "s", " ", "i", "t", " ", "g", "o", "i", "n", "g">>,
   <<"s", "t", "a", "t", "u", "s", " ", "f", "i", "x">>,
   <<"h", "i">>,
   <<"w", "o", "r", " ", "k">> >>

\* The i-th message is sent as the activity of id i.
IntentPayload(i) ==
  SessionEvent("prompted", "s1", Activity(ToString(i), IntentMessages[i]))

IntentRequests ==
  {LinearRequest(IntentPayload(i), LinearSignature(IntentPayload(i)))
     : i \in DOMAIN IntentMessages}

InitIntent == Init /\ team_configs = {ConfiguredTeam}

IntentStep(p) ==
  \/ LinearVerify(p) \/ LinearCheck(p) \/ LinearMark(p) \/ LinearRoute(p)
  \/ LinearCatch(p)
  \/ SpToken(p) \/ SpLog(p) \/ SpPending(p) \/ SpActive(p) \/ SpConfig(p)
  \/ SpStarting(p) \/ SpStatus(p) \/ SpUnclear(p)
  \/ DispatchStep(p)

NextIntent ==
  \/ \E request \in IntentRequests : LinearArrive(1, request, MaxIntentDeliveries)
  \/ IntentStep(1)

SpecIntent == InitIntent /\ [][NextIntent]_vars

\* The start events of two runs handled concurrently, with the team set up:
\* the ticket is assigned, and the CI platform reports runs 101 and 102 on
\* the same owner, repository and branch as started.
StartRequests ==
  {LinearRequest(SessionEvent("created", "s1", NoActivity),
                 LinearSignature(SessionEvent("created", "s1", NoActivity)))}
  \cup {GitHubRequest("workflow_run", d[1], d[2], GitHubSignature(d[2])) :
          d \in {<<"d1", WorkflowRunEvent("requested", 101, None)>>,
                 <<"d5", WorkflowRunEvent("requested", 102, None)>>}}

StartsStep(p) ==
  \/ EndpointStep(p)
  \/ ScToken(p) \/ ScLog(p) \/ ScAck(p) \/ ScAckFailed(p) \/ ScConfig(p)
  \/ DispatchStep(p)
  \/ WrGet(p) \/ WrMatch(p) \/ WrCreate(p) \/ WrMarkMatched(p) \/ WrToken(p)

NextStarts ==
  \E p \in Procs :
    \/ \E request \in StartRequests :
         \/ GitHubArrive(p, request, MaxStartDeliveries)
         \/ LinearArrive(p, request, MaxStartDeliveries)
    \/ StartsStep(p)

SpecStarts == InitConc /\ [][NextStarts]_vars

\* The dispatch calls the CI platform accepted, in order.  The platform
\* numbers the runs it creates in the order of their creation: the run of the
\* k-th accepted dispatch is run 100 + k, and DispatcherOf gives the session
\* that dispatch was made for.
IsAcceptedDispatch(call) == call.op = "triggerWorkflow" /\ call.ok
AcceptedDispatches == SelectSeq(outbox, IsAcceptedDispatch)
IsDispatchedRun(wr) ==
  wr.name = AgentWorkflow /\ (wr.id - 100) \in DOMAIN AcceptedDispatches
DispatcherOf(runId) == AcceptedDispatches[runId - 100].arg.agent_session_id

\* The CI platform reporting the runs it was asked for, with the team set
\* up: the ticket is assigned and more work is asked for in the same session;
\* the platform reports the start and the completion of runs 101 and 102,
\* each once, a run only after its dispatch was accepted and a completion
\* only after the start of its run was recorded.
LiveLinearRequests ==
  {LinearRequest(payload, LinearSignature(payload)) :
     payload \in {SessionEvent("created", "s1", NoActivity),
                  SessionEvent("prompted", "s1", Activity("p2", MsgFix))}}

LiveRunEvents ==
  {<<"d1", WorkflowRunEvent("requested", 101, None)>>,
   <<"d3", WorkflowRunEvent("completed", 101, "success")>>,
   <<"d5", WorkflowRunEvent("requested", 102, None)>>,
   <<"d10", WorkflowRunEvent("completed", 102, "success")>>}

Reported(delivery) ==
  isWebhookProcessed(processed_webhooks,
                     GitHubWebhookId("workflow_run", delivery, now), "github")

LiveDeliver(d) ==
  /\ IsDispatchedRun(d[2].workflow_run)
  /\ ~Reported(d[1])
  /\ d[2].action = "completed"
       => \E e \in LiveRunEvents :
            /\ e[2].action = "requested"
            /\ e[2].workflow_run.id = d[2].workflow_run.id
            /\ Reported(e[1])
  /\ GitHubArrive(1, GitHubRequest("workflow_run", d[1], d[2], GitHubSignature(d[2])),
                  MaxLiveDeliveries)

LiveStep(p) ==
  \/ EndpointStep(p)
  \/ ScToken(p) \/ ScLog(p) \/ ScAck(p) \/ ScAckFailed(p) \/ ScConfig(p)
  \/ SpToken(p) \/ SpLog(p) \/ SpPending(p) \/ SpActive(p) \/ SpProgress(p)
  \/ SpConfig(p) \/ SpStarting(p)
  \/ DispatchStep(p)
  \/ WrGet(p) \/ WrMatch(p) \/ WrCreate(p) \/ WrMarkMatched(p) \/ WrToken(p)
  \/ CompletionStep(p)

NextLive ==
  \/ \E request \in LiveLinearRequests : LinearArrive(1, request, MaxLiveDeliveries)
  \/ \E d \in LiveRunEvents : LiveDeliver(d)
  \/ LiveStep(1)

\* A request that was accepted is handled to its answer, and an event the
\* platform has to report is delivered.
SpecLive ==
  /\ InitConc
  /\ [][NextLive]_vars
  /\ WF_vars(LiveStep(1))
  /\ \A d \in LiveRunEvents : SF_vars(LiveDeliver(d))

\* --------------------------------------------- the utilities, as functions
\* The functions of utils/branch.ts and utils/crypto.ts called on their own,
\* with arguments drawn from bounded sets: one call per behaviour, kept in
\* calls with what it returned.
IdChars == {"A", "b", "1", "-", "_", " "}

Identifiers == UNION {[1..n -> IdChars] : n \in 0..MaxIdLen}

\* Branch names a repository may hold next to the names of an identifier: the
\* base name, its first suffixed forms, a longer name and the dispatch branch.
BranchCandidates(identifier) ==
  LET baseName == generateBranchName(identifier)
  IN  {baseName, Suffixed(baseName, 2), Suffixed(baseName, 3),
       baseName \o <<"x">>, DispatchBranch}

BranchLists(identifier) ==
  UNION {[1..n -> BranchCandidates(identifier)] : n \in 0..MaxBranches}

Bodies == {"body-1", "body-2"}
Secrets == {LINEAR_WEBHOOK_SECRET, GITHUB_WEBHOOK_SECRET}

\* Signature headers without a prefix: the digest of the body under the
\* secret, the digest of another body, the digest under another secret, the
\* digest cut short, made longer, changed in one digit, and the empty header.
BareSignatures(body, secret) ==
  LET digest == HmacHex(secret, body)
      forged == HmacHex("other-secret", body)
  IN  {digest, forged, <<>>,
       SubSeq(digest, 1, DigestLen - 1), digest \o <<forged[1]>>}
      \cup {HmacHex(secret, other) : other \in Bodies \ {body}}
      \cup {[digest EXCEPT ![i] = forged[i]] : i \in 1..DigestLen}

Signatures(body, secret) ==
  BareSignatures(body, secret)
  \cup {Sha256Prefix \o sig : sig \in BareSignatures(body, secret)}

UtilCall(fn, args, result) == [fn |-> fn, args |-> args, result |-> result]

CallGenerateBranchName(identifier) ==
  /\ calls' = <<UtilCall("generateBranchName", <<identifier>>,
                         generateBranchName(identifier))>>
  /\ UNCHANGED <<tables, outbox, now, proc, deliveries, bindings, faults, handled>>

CallFindAvailableBranchName(identifier, existingBranches) ==
  /\ calls' = <<UtilCall("findAvailableBranchName", <<identifier, existingBranches>>,
                         findAvailableBranchName(identifier, existingBranches))>>
  /\ UNCHANGED <<tables, outbox, now, proc, deliveries, bindings, faults, handled>>

CallVerifyLinearSignature(body, signature, secret) ==
  /\ calls' = <<UtilCall("verifyLinearSignature", <<body, signature, secret>>,
                         verifyLinearSignature(body, signature, secret))>>
  /\ UNCHANGED <<tables, outbox, now, proc, deliveries, bindings, faults, handled>>

CallVerifyGitHubSignature(body, signature, secret) ==
  /\ calls' = <<UtilCall("verifyGitHubSignature", <<body, signature, secret>>,
                         verifyGitHubSignature(body, signature, secret))>>
  /\ UNCHANGED <<tables, outbox, now, proc, deliveries, bindings, faults, handled>>

\* The arguments a behaviour can still draw: all of them before its call,
\* none after it.
Uncalled(arguments) == IF calls = <<>> THEN arguments ELSE {}

NextUtils ==
  \/ \E identifier \in Uncalled(Identifiers) :
       \/ CallGenerateBranchName(identifier)
       \/ \E existingBranches \in BranchLists(identifier) :
            CallFindAvailableBranchName(identifier, existingBranches)
  \/ \E body \in Uncalled(Bodies), secret \in Secrets :
       \E signature \in Signatures(body, secret) :
         \/ CallVerifyLinearSignature(body, signature, secret)
         \/ CallVerifyGitHubSignature(body, signature, secret)

InitUtils == Init /\ team_configs = {}

SpecUtils == InitUtils /\ [][NextUtils]_vars

\* The ledger used through its two operations alone.
NextLedger ==
  \E webhookId \in LedgerIds, webhookType \in Sources : LedgerMark(webhookId, webhookType)

SpecLedger == Init /\ [][NextLedger]_vars

\* ------------------------------------------------------------------ properties
\* What a handler can change: every table but the ledger, and the outbound calls.
Effects == <<handlerTables, outbox>>

\* Process p took this step.
Moved(p) == proc'[p] # proc[p]

\* The ledger entry of the delivery process p handles.
Recorded(p, ledger) == isWebhookProcessed(ledger, proc[p].webhookId, Req(p).endpoint)

NoDuplicates(seq) == \A i, j \in DOMAIN seq : seq[i] = seq[j] => i = j

\* C1: once a WorkflowRun's status is completed it never becomes queued or
\* in_progress again, whatever workflow_run and unassignment events follow.
C1_CompletedIsTerminal ==
  [][\A r \in workflow_runs :
       r.status = "completed" =>
         \A n \in workflow_runs' :
           n.github_run_id = r.github_run_id => n.status = "completed"]_vars

\* C2: with deliveries handled one at a time, the handlers run once per
\* event id and endpoint: a delivery whose id was already routed to the handlers
\* (whether they finished or failed) is answered already_processed, and that
\* step writes no table and makes no outbound call.
C2_RedeliveryIsSkipped ==
  [][/\ NoDuplicates(handled')
     /\ \A p \in Procs :
          (/\ proc[p].pc \in {"g_check", "l_check"}
           /\ <<proc[p].webhookId, Req(p).endpoint>> \in Range(handled)
           /\ Moved(p))
          => /\ proc'[p].pc = "idle"
             /\ proc'[p].resp = [status |-> 200, body |-> "already_processed"]
             /\ UNCHANGED <<tables, outbox, handled>>]_vars

\* A redelivery was answered already_processed after the one delivery that
\* reached the handlers had failed in them.
C2_Witness ==
  /\ proc[1].resp.body = "already_processed"
  /\ Len(handled) = 1
  /\ faults = 1

\* C3: on both endpoints a delivery goes through signature check, ledger
\* check, ledger insert and handlers in that order, and every step with a
\* handler side effect (a write to a table other than the ledger, an outbound
\* call) is taken by a request whose event id is already in the ledger.
C3_MarkedBeforeHandlers ==
  [][/\ \A p \in Procs :
          /\ proc'[p].pc \in {"g_check", "l_check"} /\ Moved(p)
               => proc[p].pc \in {"g_verify", "l_verify"}
          /\ proc'[p].pc \in {"g_mark", "l_mark"} /\ Moved(p)
               => proc[p].pc \in {"g_check", "l_check"}
          /\ proc'[p].pc \in {"g_route", "l_route"} /\ Moved(p)
               => /\ proc[p].pc \in {"g_mark", "l_mark"}
                  /\ isWebhookProcessed(processed_webhooks', proc'[p].webhookId,
                                        Val(proc'[p].req).endpoint)
          /\ proc'[p].pc \notin BeforeHandlers \cup {"idle", "g_route", "l_route"} /\ Moved(p)
               => proc[p].pc \notin BeforeHandlers \cup {"idle"}
     /\ Effects' # Effects
          => \E p \in Procs : /\ Moved(p)
                              /\ proc[p].pc \notin BeforeHandlers \cup {"idle"}
                              /\ Recorded(p, processed_webhooks)]_vars

\* A handler has written to a table and made an outbound call.
C3_Witness ==
  /\ proc[1].pc \notin BeforeHandlers \cup {"idle"}
  /\ Len(run_log) > 0
  /\ Len(outbox) > 0

\* C4: of two deliveries with the same event id handled concurrently, at most
\* one reaches the handlers.
C4_AtMostOneHandles == NoDuplicates(handled)

\* C5: isProcessed(id, source) is true exactly when markProcessed was called
\* with that id and that source; the same id under the other source is
\* independent.
C5_KeyedByIdAndSource ==
  \A webhookId \in LedgerIds, webhookType \in Sources :
    isWebhookProcessed(processed_webhooks, webhookId, webhookType)
      <=> <<webhookId, webhookType>> \in Range(calls)

\* C6: a markProcessed call (which cannot raise) leaves isProcessed true for
\* its pair, and a repeated call leaves the ledger as it was.
C6_MarkIsIdempotent ==
  [][\A webhookId \in LedgerIds, webhookType \in Sources :
       calls' = Append(calls, <<webhookId, webhookType>>)
         => /\ isWebhookProcessed(processed_webhooks', webhookId, webhookType)
            /\ <<webhookId, webhookType>> \in Range(calls)
                 => processed_webhooks' = processed_webhooks]_vars

\* The signature header a request must carry to be authentic.
ExpectedSignature(request) ==
  IF request.endpoint = "linear"
  THEN LinearSignature(request.payload)
  ELSE GitHubSignature(request.payload)

Authentic(request) == request.signature = ExpectedSignature(request)

\* C7: on both endpoints a delivery whose signature does not verify is
\* answered 401 in the step that checks it, with the ledger, the RunLog and
\* every other table unchanged and no outbound call; no request gets past the
\* signature check without an authentic signature.
C7_ForgedIsRejected ==
  [][\A p \in Procs :
       /\ (proc[p].pc \in {"g_verify", "l_verify"} /\ ~Authentic(Req(p)) /\ Moved(p))
            => /\ proc'[p].pc = "idle"
               /\ proc'[p].resp.status = 401
               /\ UNCHANGED <<tables, outbox, handled>>
       /\ proc'[p].pc \notin {"idle", "g_verify", "l_verify"}
            => Authentic(Val(proc'[p].req))]_vars

\* A delivery was rejected while the tables held rows to protect.
C7_Witness ==
  /\ proc[1].resp.status = 401
  /\ processed_webhooks # {}
  /\ Len(run_log) > 0

\* C8: on both endpoints a handler failure after the ledger insert is answered
\* with status 200, the event stays in the ledger, and a webhook_error entry
\* is appended to the RunLog unless that log write itself fails.
C8_FailureIsAcknowledgedAndLogged ==
  [][\A p \in Procs :
       (/\ proc[p].pc \notin BeforeHandlers \cup {"idle"}
        /\ proc'[p].pc = "idle"
        /\ proc'[p].resp.body = "error")
       => /\ proc'[p].resp.status = 200
          /\ Recorded(p, processed_webhooks')
          /\ \/ /\ Len(run_log') = Len(run_log) + 1
                /\ run_log'[Len(run_log')].event_type = "webhook_error"
             \/ /\ proc[p].pc = "l_catch"
                /\ Len(run_log') = Len(run_log)]_vars

\* C9: with CI events handled one at a time, no PendingWorkflowTrigger is
\* bound to two WorkflowRuns.
C9_OneRunPerTrigger ==
  \A b1, b2 \in bindings : b1[2] = b2[2] => b1 = b2

\* Run 101 was bound to the one trigger, and the start of run 102 on the same
\* owner, repo and branch was handled after it without a binding.
C9_Witness ==
  /\ proc[1].pc = "idle"
  /\ Cardinality(pending_workflow_triggers) = 1
  /\ {b[1] : b \in bindings} = {101}
  /\ \E i, j \in DOMAIN handled :
       /\ i < j
       /\ handled[i] = <<GitHubWebhookId("workflow_run", "d1", now), "github">>
       /\ handled[j] = <<GitHubWebhookId("workflow_run", "d5", now), "github">>

\* C10: there is at most one PendingWorkflowTrigger row per (session, kind),
\* also with dispatches running concurrently; the row a dispatch leaves for
\* its pair is the only one, is unmatched, and has that dispatch's owner,
\* repository, branch and issue.
C10_OneTriggerPerSessionAndKind ==
  [][/\ \A r1, r2 \in pending_workflow_triggers' :
          (r1.agent_session_id = r2.agent_session_id
           /\ r1.workflow_type = r2.workflow_type) => r1 = r2
     /\ \A p \in Procs :
          (proc[p].pc = "ti_pending" /\ proc'[p].pc = "ti_dispatch")
          => LET d == Dispatch(p)
                 rows == {r \in pending_workflow_triggers' :
                            /\ r.agent_session_id = d.agentSessionId
                            /\ r.workflow_type = "implement"}
             IN  /\ Cardinality(rows) = 1
                 /\ \A r \in rows :
                      /\ IsNull(r.matched_at)
                      /\ r.github_owner = d.config.github_owner
                      /\ r.github_repo = d.config.github_repo
                      /\ r.branch_name = d.config.github_branch
                      /\ r.linear_issue_id = d.issueId
                      /\ r.linear_issue_identifier = d.issueIdentifier]_vars

\* Two dispatches for the same session ran side by side, the second wrote its
\* trigger over the first's, and one row is left.
C10_Witness ==
  /\ proc[1].pc = "ti_dispatch"
  /\ proc[2].pc = "ti_dispatch"
  /\ autoinc.pending_workflow_triggers = 3
  /\ Cardinality(pending_workflow_triggers) = 1

\* ------------------------------------------------- properties of the handlers
\* The call a step has just appended to the outbox.
Sent == outbox'[Len(outbox')]
SentOne == Len(outbox') = Len(outbox) + 1

\* The row of a run in a workflow_runs table.
RunRow(tbl, githubRunId) == CHOOSE r \in tbl : r.github_run_id = githubRunId

\* The request process p handles has ended, with an answer or in the catch
\* block of the Linear endpoint.
Ended(pr) == pr.pc \in {"idle", "l_catch"}

\* C11: the branch of every by-branch result search is the feature branch
\* that Dispatch computed with the Branch Namer and passed to the job of the
\* run's session.
C11_SearchUsesFeatureBranch ==
  \A i \in DOMAIN outbox :
    outbox[i].op = "listPullRequestsForBranch" =>
      \E r \in workflow_runs :
        /\ r.github_run_id = outbox[i].target
        /\ \E j \in 1..(i - 1) :
             /\ outbox[j].op = "triggerWorkflow"
             /\ outbox[j].arg.agent_session_id = r.agent_session_id
             /\ outbox[j].arg.branch_name = outbox[i].arg.branch

\* C12: a completion has exactly one outcome.  Success with a result found:
\* the run is completed with the conclusion and the result's number and url,
\* one attachment is created, one success response is sent.  Success with no
\* result: the run is completed, its PR fields are not written, no attachment
\* step is taken, one 'no changes' response is sent.  Any other conclusion:
\* the run is completed with it, no attachment step is taken, one error
\* activity with the link (owner, repo, run id) is sent.  Then one
\* workflow_completed RunLog entry with the conclusion is appended.
C12_CompletionOutcome ==
  [][/\ \A p \in Procs :
          LET run == Val(proc[p].workflowRun)
              conclusion == Conclusion(Req(p).payload.workflow_run)
              prs == proc[p].prs
              found == conclusion = "success" /\ Len(prs) > 0
              before == RunRow(workflow_runs, run.github_run_id)
              after == RunRow(workflow_runs', run.github_run_id)
          IN  /\ (proc[p].pc = "wc_update" /\ Moved(p))
                   => /\ after.status = "completed"
                      /\ after.conclusion = conclusion
                      /\ IF found
                         THEN /\ after.pr_number = Some(prs[1].number)
                              /\ after.pr_url = prs[1].html_url
                              /\ proc'[p].pc = "wc_attach"
                         ELSE /\ after.pr_number = before.pr_number
                              /\ after.pr_url = before.pr_url
                              /\ proc'[p].pc = "wc_respond"
                      /\ outbox' = outbox
              /\ (proc[p].pc = "wc_attach" /\ Moved(p))
                   => /\ found
                      /\ SentOne
                      /\ Sent.op = "createAttachment"
                      /\ Sent.target = run.linear_issue_id
                      /\ Sent.arg = prs[1].html_url
                      /\ Sent.ok <=> proc'[p].pc = "wc_respond"
                      /\ UNCHANGED tables
              /\ (proc[p].pc = "wc_respond" /\ Moved(p))
                   => /\ SentOne
                      /\ Sent.api = "linear"
                      /\ Sent.target = run.agent_session_id
                      /\ IF found
                         THEN /\ Sent.op = "response"
                              /\ Sent.arg.kind = "complete"
                              /\ Sent.arg.pr = prs[1]
                         ELSE IF conclusion = "success"
                         THEN /\ Sent.op = "response"
                              /\ Sent.arg = [kind |-> "no_changes"]
                         ELSE /\ Sent.op = "error"
                              /\ Sent.arg.conclusion = conclusion
                              /\ Sent.arg.link =
                                   <<run.github_owner, run.github_repo, run.github_run_id>>
                      /\ Sent.ok <=> proc'[p].pc = "wc_log"
                      /\ UNCHANGED tables
              /\ (proc[p].pc = "wc_log" /\ Moved(p))
                   => /\ Len(run_log') = Len(run_log) + 1
                      /\ SubSeq(run_log', 1, Len(run_log)) = run_log
                      /\ run_log'[Len(run_log')].event_type = "workflow_completed"
                      /\ run_log'[Len(run_log')].info = conclusion
                      /\ run_log'[Len(run_log')].workflow_run_id = Some(run.id)
                      /\ outbox' = outbox
                      /\ workflow_runs' = workflow_runs
                      /\ proc'[p].pc = "idle"
     /\ (Len(outbox') > Len(outbox) /\ Sent.op = "createAttachment")
          => \E p \in Procs : proc[p].pc = "wc_attach" /\ Moved(p)
     /\ (Len(run_log') > Len(run_log)
         /\ run_log'[Len(run_log')].event_type = "workflow_completed")
          => \E p \in Procs : proc[p].pc = "wc_log" /\ Moved(p)]_vars

\* A run failed and was then reported successful with a pull request: both
\* completions were logged, the attachment was created and the run carries
\* the pull request.
C12_Witness ==
  /\ proc[1].pc = "idle"
  /\ \E i, j \in DOMAIN run_log :
       /\ i < j
       /\ run_log[i].event_type = "workflow_completed" /\ run_log[i].info = "failure"
       /\ run_log[j].event_type = "workflow_completed" /\ run_log[j].info = "success"
  /\ \E r \in workflow_runs : ~IsNull(r.pr_number) /\ r.conclusion = "success"
  /\ \E i \in DOMAIN outbox : outbox[i].op = "createAttachment" /\ outbox[i].ok

\* A title that contains the search term, letter case aside.
TitleHas(pr, term) == Includes(toLowerCase(pr.title), toLowerCase(term))

\* C13: on a success completion the by-title search is made only when the
\* by-branch search answered with nothing; a non-empty by-branch answer is the
\* list used; the by-title list is the open pull requests whose title
\* contains the ticket identifier case-insensitively, in the order answered;
\* and the result persisted is the first element of the list used.
C13_SearchOrder ==
  [][/\ \A p \in Procs :
          LET run == Val(proc[p].workflowRun)
              conclusion == Conclusion(Req(p).payload.workflow_run)
              after == RunRow(workflow_runs', run.github_run_id)
          IN  /\ (proc'[p].pc = "wc_list" /\ Moved(p))
                   => Conclusion(Val(proc'[p].req).payload.workflow_run) = "success"
              /\ (proc[p].pc = "wc_list" /\ Moved(p) /\ Sent.ok)
                   => /\ Sent.op = "listPullRequestsForBranch"
                      /\ Sent.arg.branch = run.branch_name
                      /\ proc'[p].prs = Sent.arg.answer
                      /\ IF Len(Sent.arg.answer) > 0
                         THEN proc'[p].pc = "wc_update"
                         ELSE proc'[p].pc = "wc_search"
              /\ (proc[p].pc = "wc_search" /\ Moved(p) /\ Sent.ok)
                   => /\ proc[p].prs = <<>>
                      /\ Sent.op = "searchPullRequestsByTitle"
                      /\ Sent.arg.term = run.linear_issue_identifier
                      /\ proc'[p].pc = "wc_update"
                      /\ LET open == Sent.arg.answer
                             hits == {i \in DOMAIN open : TitleHas(open[i], Sent.arg.term)}
                         IN  /\ Len(proc'[p].prs) = Cardinality(hits)
                             /\ hits # {}
                                  => LET first == CHOOSE i \in hits : \A k \in hits : i <= k
                                     IN  /\ proc'[p].prs[1].number = open[first].number
                                         /\ proc'[p].prs[1].html_url = open[first].html_url
              /\ (proc[p].pc = "wc_update" /\ Moved(p)
                  /\ conclusion = "success" /\ Len(proc[p].prs) > 0)
                   => /\ after.pr_number = Some(proc[p].prs[1].number)
                      /\ after.pr_url = proc[p].prs[1].html_url
     /\ (Len(outbox') > Len(outbox) /\ Sent.op = "searchPullRequestsByTitle")
          => \E p \in Procs : /\ proc[p].pc = "wc_search" /\ Moved(p)
                              /\ outbox[Len(outbox)].op = "listPullRequestsForBranch"
                              /\ outbox[Len(outbox)].arg.answer = <<>>]_vars

\* The by-branch search found nothing, the by-title search was answered with
\* two open pull requests of which the second carries the identifier in lower
\* case, and that one was persisted on the run.
C13_Witness ==
  /\ proc[1].pc = "idle"
  /\ Len(outbox) >= 4
  /\ outbox[Len(outbox) - 2].op = "searchPullRequestsByTitle"
  /\ outbox[Len(outbox) - 2].arg.answer = <<BasePR, FeaturePR>>
  /\ \E r \in workflow_runs :
       r.pr_number = Some(FeaturePR.number) /\ r.pr_url = FeaturePR.html_url

\* The linear tables and calls an unassignment may touch besides the RunLog.
UnassignFrame ==
  <<processed_webhooks, pending_workflow_triggers, workflow_runs, team_configs,
    pending_configs, github_installations, oauth_tokens, autoinc, outbox>>

\* A run of the issue that is not completed.
HasActiveRun(issueId) ==
  \E r \in workflow_runs : r.linear_issue_id = issueId /\ r.status # "completed"

\* C14: an unassignment for an issue with no non-completed WorkflowRun makes
\* no CI call, sends no activity and changes no WorkflowRun, trigger,
\* PendingConfig or TeamConfig: its first step appends the one RunLog entry
\* recording the unassignment and nothing else, and its second step, finding
\* no active run, ends the handler with every table and the outbox unchanged.
C14_UnassignWithoutRunIsNoOp ==
  [][\A p \in Procs :
       /\ (proc[p].pc = "un_log" /\ Moved(p))
            => /\ Len(run_log') = Len(run_log) + 1
               /\ SubSeq(run_log', 1, Len(run_log)) = run_log
               /\ run_log'[Len(run_log')].event_type = "agent_unassigned"
               /\ run_log'[Len(run_log')].info = Req(p).payload.notification.issue.id
               /\ proc'[p].pc = "un_active"
               /\ UNCHANGED UnassignFrame
       /\ (proc[p].pc = "un_active" /\ Moved(p)
           /\ ~HasActiveRun(Req(p).payload.notification.issue.id))
            => /\ proc'[p].pc = "idle"
               /\ proc'[p].resp = [status |-> 200, body |-> "ok"]
               /\ UNCHANGED <<tables, outbox>>]_vars

\* The agent was unassigned from an issue whose only run had completed: the
\* unassignment is the last RunLog entry and nothing was cancelled.
C14_Witness ==
  /\ proc[1].pc = "idle"
  /\ proc[1].resp = [status |-> 200, body |-> "ok"]
  /\ Len(run_log) > 0
  /\ run_log[Len(run_log)].event_type = "agent_unassigned"
  /\ \E r \in workflow_runs :
       r.linear_issue_id = run_log[Len(run_log)].info /\ r.status = "completed"
  /\ \A i \in DOMAIN outbox : outbox[i].op # "cancelWorkflowRun"

\* C15: an unassignment for an issue with a non-completed WorkflowRun, the
\* installation record and the workspace token found, calls the CI cancel for
\* that run's id.  An answer 202 or 409 (already finished) lets the handler go
\* on: the run is set to completed / cancelled, one cancellation notice goes
\* to its session and, when the handler has run to its end, no PendingConfig
\* is left for that session (none is left either when the notice call
\* throws and the handler ends before its clean-up).  When the cancel call
\* throws, the handler ends there and the run's row is never written.
C15_UnassignCancelsRun ==
  [][\A p \in Procs :
       LET run == Val(proc[p].workflowRun)
           after == RunRow(workflow_runs', run.github_run_id)
       IN  /\ (proc'[p].pc = "cw_cancel" /\ Moved(p))
                => /\ proc[p].pc = "un_token"
                   /\ run \in workflow_runs
                   /\ run.status # "completed"
                   /\ run.linear_issue_id = Req(p).payload.notification.issue.id
                   /\ \E i \in github_installations :
                        /\ i.account_login = run.github_owner
                        /\ proc[p].installationId = Some(i.installation_id)
                   /\ run.linear_workspace_id \in oauth_tokens
           /\ (proc[p].pc = "cw_cancel" /\ Moved(p))
                => /\ SentOne
                   /\ Sent.op = "cancelWorkflowRun"
                   /\ Sent.target = run.github_run_id
                   /\ UNCHANGED tables
                   /\ IF Sent.ok
                      THEN Sent.arg \in {202, 409} /\ proc'[p].pc = "cw_update"
                      ELSE proc'[p].pc = "l_catch"
           /\ (proc[p].pc = "l_catch" /\ Moved(p))
                => workflow_runs' = workflow_runs
           /\ (proc[p].pc = "cw_update" /\ Moved(p))
                => /\ after.status = "completed"
                   /\ after.conclusion = "cancelled"
                   /\ \A r \in workflow_runs :
                        r.github_run_id # run.github_run_id => r \in workflow_runs'
                   /\ proc'[p].pc = "cw_notify"
                   /\ outbox' = outbox
           /\ (proc[p].pc = "cw_notify" /\ Moved(p))
                => /\ SentOne
                   /\ Sent.op = "thought"
                   /\ Sent.target = run.agent_session_id
                   /\ Sent.arg = "Workflow cancelled"
                   /\ Sent.ok <=> proc'[p].pc = "cw_log"
                   /\ ~Sent.ok
                        => ~\E c \in pending_configs' :
                              c.agent_session_id = run.agent_session_id
                   /\ UNCHANGED tables
           /\ (proc[p].pc = "un_cleanup" /\ Moved(p))
                => /\ ~\E c \in pending_configs' : c.agent_session_id = run.agent_session_id
                   /\ after.status = "completed"
                   /\ after.conclusion = "cancelled"
                   /\ outbox' = outbox
                   /\ outbox[Len(outbox)].op = "thought"
                   /\ outbox[Len(outbox)].arg = "Workflow cancelled"
                   /\ outbox[Len(outbox)].ok
                   /\ outbox[Len(outbox) - 1].op = "cancelWorkflowRun"
                   /\ outbox[Len(outbox) - 1].target = run.github_run_id
                   /\ proc'[p].pc = "idle"]_vars

\* The CI platform answered the cancel of a queued run with 409, and the
\* handler ran to its end: the run is completed / cancelled and the notice is
\* the last call made.
C15_Witness ==
  /\ proc[1].pc = "idle"
  /\ proc[1].resp = [status |-> 200, body |-> "ok"]
  /\ Len(outbox) >= 2
  /\ outbox[Len(outbox)].op = "thought"
  /\ outbox[Len(outbox)].arg = "Workflow cancelled"
  /\ outbox[Len(outbox) - 1].op = "cancelWorkflowRun"
  /\ outbox[Len(outbox) - 1].ok
  /\ outbox[Len(outbox) - 1].arg = 409
  /\ \E r \in workflow_runs : r.status = "completed" /\ r.conclusion = "cancelled"
  /\ Len(run_log) > 0
  /\ run_log[Len(run_log)].event_type = "workflow_cancelled"

\* C16: Dispatch with a TeamConfig that lacks owner, repo or installation id
\* throws the configuration error in its first step: no outbound call is
\* made, no table is written, and no later step of Dispatch is taken with
\* such a config.
C16_DispatchFailsFast ==
  [][\A p \in Procs :
       LET config == Dispatch(p).config
           lacking == \/ config.github_owner = <<>>
                      \/ config.github_repo = <<>>
                      \/ IsNull(config.github_installation_id)
       IN  /\ (proc[p].pc = "ti_check" /\ Moved(p))
                => IF lacking
                   THEN /\ proc'[p].pc = "l_catch"
                        /\ proc'[p].error = "Team config missing GitHub configuration"
                        /\ UNCHANGED <<tables, outbox>>
                   ELSE proc'[p].pc = "ti_context"
           /\ proc[p].pc \in {"ti_context", "ti_branches", "ti_log", "ti_starting",
                              "ti_pending", "ti_dispatch"}
                => ~lacking]_vars

\* Dispatch was invoked for a team whose row has owner and repository but no
\* installation id, and threw.
C16_Witness ==
  /\ proc[1].pc = "l_catch"
  /\ proc[1].error = "Team config missing GitHub configuration"
  /\ team_configs = {NoInstallationTeam}

\* What a session-prompted request reads: the PendingConfig of its session,
\* the non-completed runs of its issue, the row of its team.
HasPendingConfig(sessionId) ==
  \E c \in pending_configs : c.agent_session_id = sessionId

TeamHasOwner(payload) ==
  \E c \in team_configs :
    /\ c.linear_workspace_id = payload.organizationId
    /\ c.linear_team_id = payload.agentSession.issue.team.id
    /\ c.github_owner # <<>>

\* C17: a session-prompted event reaches Dispatch through the keyword
\* classification only when its session has no PendingConfig, its issue has
\* no non-completed run and its team has a row with an owner.  With a
\* PendingConfig the handler goes to the repo-configuration sub-flow; else
\* with an active run it sends one status thought and nothing else; else with
\* no configured team it sends the 'team unconfigured' elicitation and writes
\* no table (no PendingConfig is created).
C17_PromptedRouting ==
  [][\A p \in Procs :
       LET payload == Req(p).payload
           sessionId == payload.agentSession.id
           issueId == payload.agentSession.issue.id
       IN  /\ (proc[p].pc = "sp_pending" /\ Moved(p))
                => /\ IF HasPendingConfig(sessionId)
                      THEN proc'[p].pc \in {"cr_reject", "cr_install"}
                      ELSE proc'[p].pc = "sp_active"
                   /\ UNCHANGED <<tables, outbox>>
           /\ (proc[p].pc = "sp_active" /\ Moved(p))
                => /\ IF HasActiveRun(issueId)
                      THEN proc'[p].pc = "sp_progress"
                      ELSE proc'[p].pc = "sp_config"
                   /\ UNCHANGED <<tables, outbox>>
           /\ (proc[p].pc = "sp_progress" /\ Moved(p))
                => /\ SentOne
                   /\ Sent.op = "thought"
                   /\ Sent.target = sessionId
                   /\ Sent.arg \in {"queued", "in_progress"}
                   /\ Ended(proc'[p])
                   /\ UNCHANGED tables
           /\ (proc[p].pc = "sp_config" /\ Moved(p))
                => /\ IF TeamHasOwner(payload)
                      THEN proc'[p].pc \in {"sp_starting", "sp_status", "sp_unclear"}
                      ELSE proc'[p].pc = "sp_unconfigured"
                   /\ UNCHANGED <<tables, outbox>>
           /\ (proc[p].pc = "sp_unconfigured" /\ Moved(p))
                => /\ SentOne
                   /\ Sent.op = "elicitation"
                   /\ Sent.target = sessionId
                   /\ Sent.arg = "not_configured"
                   /\ Ended(proc'[p])
                   /\ UNCHANGED tables
           /\ (proc'[p].pc = "sp_starting" /\ Moved(p))
                => /\ proc[p].pc = "sp_config"
                   /\ ~HasPendingConfig(sessionId)
                   /\ ~HasActiveRun(issueId)
                   /\ TeamHasOwner(payload)
           /\ (proc'[p].pc = "ti_check" /\ Moved(p) /\ payload.action = "prompted")
                => proc[p].pc \in {"sp_starting", "cr_log"}]_vars

\* A user wrote into a session whose run was queued and got the status
\* thought, after which the handler ended.
C17_Witness ==
  /\ proc[1].pc = "idle"
  /\ Len(outbox) > 0
  /\ outbox[Len(outbox)].op = "thought"
  /\ outbox[Len(outbox)].arg = "queued"
  /\ outbox[Len(outbox)].ok
  /\ HasActiveRun("i1")
  /\ run_log[Len(run_log)].event_type = "session_prompted"

\* C18: when a session with a PendingConfig gets a reply with an owner/repo
\* token, the installation is present and the external calls return, the
\* handler creates the TeamConfig of the pending (workspace, team), deletes
\* the session's PendingConfig and invokes Dispatch for the pending issue,
\* whether or not a row for that team exists already.
C18_ReplyConfiguresTeam ==
  [][\A p \in Procs :
       LET pendingConfig == Val(proc[p].pendingConfig)
       IN  /\ (proc[p].pc = "cr_create" /\ Moved(p))
                => /\ proc'[p].pc = "cr_delete"
                   /\ \E c \in team_configs' :
                        /\ c.linear_workspace_id = pendingConfig.linear_workspace_id
                        /\ c.linear_team_id = pendingConfig.linear_team_id
                        /\ c.github_owner = Val(proc[p].repo).owner
                        /\ c.github_repo = Val(proc[p].repo).repo
           /\ (proc[p].pc = "cr_delete" /\ Moved(p))
                => ~\E c \in pending_configs' :
                      c.agent_session_id = pendingConfig.agent_session_id
           /\ (proc[p].pc = "cr_log" /\ Moved(p))
                => /\ proc'[p].pc = "ti_check"
                   /\ Val(proc'[p].dispatch).issueId = pendingConfig.pending_issue_id
                   /\ Val(proc'[p].dispatch).agentSessionId = pendingConfig.agent_session_id]_vars

\* C19: in the repo-configuration sub-flow a reply without an owner/repo
\* token, or with one whose installation is absent, only sends a prompt: no
\* table is written (the PendingConfig stays, no TeamConfig and no
\* installation record is written) and the handler ends without Dispatch.
C19_BadReplyOnlyPrompts ==
  [][\A p \in Procs :
       LET sessionId == Req(p).payload.agentSession.id
           message == UserMessage(Req(p).payload)
       IN  /\ (proc[p].pc = "sp_pending" /\ Moved(p) /\ HasPendingConfig(sessionId)
               /\ "/" \notin Range(message))
                => proc'[p].pc = "cr_reject"
           /\ (proc[p].pc = "cr_reject" /\ Moved(p))
                => /\ SentOne
                   /\ Sent.op = "elicitation"
                   /\ Sent.target = sessionId
                   /\ Sent.arg = "could_not_parse"
                   /\ Ended(proc'[p])
                   /\ UNCHANGED tables
           /\ (proc[p].pc = "cr_install" /\ Moved(p))
                => /\ SentOne
                   /\ Sent.op = "getRepoInstallation"
                   /\ UNCHANGED tables
                   /\ (Sent.ok /\ IsNull(proc'[p].installationId))
                        => proc'[p].pc = "cr_no_access"
                   /\ proc'[p].pc = "cr_default"
                        => Sent.ok /\ ~IsNull(proc'[p].installationId)
           /\ (proc[p].pc = "cr_no_access" /\ Moved(p))
                => /\ SentOne
                   /\ Sent.op = "elicitation"
                   /\ Sent.target = sessionId
                   /\ Sent.arg = "install_app"
                   /\ Ended(proc'[p])
                   /\ HasPendingConfig(sessionId)
                   /\ UNCHANGED tables]_vars

\* A session waiting for its repository first got a reply without a token and
\* then one naming a repository the app is not installed on: both were
\* answered with a prompt and the PendingConfig is still there.
C19_Witness ==
  /\ proc[1].pc = "idle"
  /\ HasPendingConfig("s1")
  /\ team_configs = {}
  /\ github_installations = {}
  /\ \E i, j \in DOMAIN outbox :
       /\ i < j
       /\ outbox[i].op = "elicitation" /\ outbox[i].arg = "could_not_parse"
       /\ outbox[j].op = "elicitation" /\ outbox[j].arg = "install_app"
       /\ j = Len(outbox)

\* C20: a session-created event (workspace token present) either stores the
\* session's PendingConfig (the only row of that session afterwards) and
\* sends the 'which repository' elicitation without Dispatch, when the team
\* has no row or its row lacks owner or repository; or it invokes Dispatch
\* with the team's row, and then no step of the request writes pending_configs.
C20_CreatedAsksOrDispatches ==
  [][\A p \in Procs :
       LET payload == Req(p).payload
           sessionId == payload.agentSession.id
           issue == payload.agentSession.issue
           rows == {c \in team_configs :
                      /\ c.linear_workspace_id = payload.organizationId
                      /\ c.linear_team_id = issue.team.id}
           asked == [agent_session_id |-> sessionId,
                     linear_workspace_id |-> payload.organizationId,
                     linear_team_id |-> issue.team.id,
                     pending_issue_id |-> issue.id,
                     pending_issue_identifier |-> issue.identifier]
       IN  /\ (proc[p].pc = "sc_config" /\ Moved(p))
                => /\ IF \/ rows = {}
                         \/ \E c \in rows : c.github_owner = <<>> \/ c.github_repo = <<>>
                      THEN proc'[p].pc = "sc_pending"
                      ELSE /\ proc'[p].pc = "ti_check"
                           /\ Val(proc'[p].dispatch).config \in rows
                           /\ Val(proc'[p].dispatch).agentSessionId = sessionId
                           /\ Val(proc'[p].dispatch).issueId = issue.id
                   /\ UNCHANGED <<tables, outbox>>
           /\ (proc[p].pc = "sc_pending" /\ Moved(p))
                => /\ {c \in pending_configs' : c.agent_session_id = sessionId} = {asked}
                   /\ \A c \in pending_configs :
                        c.agent_session_id # sessionId => c \in pending_configs'
                   /\ proc'[p].pc = "sc_ask"
                   /\ UNCHANGED <<team_configs, pending_workflow_triggers, workflow_runs,
                                  github_installations, run_log, outbox>>
           /\ (proc[p].pc = "sc_ask" /\ Moved(p))
                => /\ SentOne
                   /\ Sent.op = "elicitation"
                   /\ Sent.target = sessionId
                   /\ Sent.arg = "which_repository"
                   /\ Ended(proc'[p])
                   /\ UNCHANGED tables
           /\ (proc[p].pc \in {"ti_check", "ti_context", "ti_branches", "ti_log",
                               "ti_starting", "ti_pending", "ti_dispatch"}
               /\ payload.action = "created" /\ Moved(p))
                => pending_configs' = pending_configs]_vars

\* A session was created for a team whose row has an owner but no
\* repository: the PendingConfig was stored, the question sent, and no trigger
\* written.
C20_Witness ==
  /\ proc[1].pc = "idle"
  /\ team_configs = {NoRepoTeam}
  /\ HasPendingConfig("s1")
  /\ pending_workflow_triggers = {}
  /\ Len(outbox) > 0
  /\ outbox[Len(outbox)].op = "elicitation"
  /\ outbox[Len(outbox)].arg = "which_repository"
  /\ outbox[Len(outbox)].ok

\* The acknowledgment thoughts sent to a session so far, by outbox position.
Acks(sessionId) ==
  {i \in DOMAIN outbox : /\ outbox[i].op = "thought"
                         /\ outbox[i].arg = "Looking"
                         /\ outbox[i].target = sessionId}

\* The slower work of a session-created request a step does: an issue-context
\* fetch, a branch listing, a CI dispatch, a PendingConfig write or a trigger
\* write.
SlowWork ==
  \/ /\ Len(outbox') > Len(outbox)
     /\ Sent.op \in {"getIssueContext", "listBranches", "triggerWorkflow"}
  \/ pending_configs' # pending_configs
  \/ pending_workflow_triggers' # pending_workflow_triggers

\* C21: while a session-created event is handled, every issue-context fetch,
\* branch listing, PendingConfig write, trigger write and CI dispatch comes
\* after the acknowledgment thought of the session was sent and went through;
\* when sending it fails the handler logs the error and ends, and does none
\* of them.
C21_AckComesFirst ==
  [][\A p \in Procs :
       LET payload == Req(p).payload
           sessionId == payload.agentSession.id
       IN  (Active(p) /\ proc[p].pc \notin BeforeHandlers /\ proc[p].pc # "l_route"
            /\ isAgentSessionWebhook(payload) /\ payload.action = "created" /\ Moved(p))
             => /\ SlowWork
                  => /\ Acks(sessionId) # {}
                     /\ \A i \in Acks(sessionId) : outbox[i].ok
                /\ proc[p].pc = "sc_ack"
                  => /\ SentOne
                     /\ Sent = [LinearCall("thought", sessionId, "Looking")
                                  EXCEPT !.ok = Sent.ok]
                     /\ UNCHANGED tables
                     /\ proc'[p].pc = IF Sent.ok THEN "sc_config" ELSE "sc_ack_failed"
                /\ proc[p].pc = "sc_ack_failed"
                  => /\ Ended(proc'[p])
                     /\ ~SlowWork
                     /\ outbox' = outbox
                /\ (proc[p].pc = "l_catch" /\ \E i \in Acks(sessionId) : ~outbox[i].ok)
                  => ~SlowWork /\ outbox' = outbox]_vars

\* A session was created for a configured team: the acknowledgment went
\* through, then the context was fetched, the branches listed, the trigger
\* written, and the request is about to dispatch.
C21_Witness ==
  /\ proc[1].pc = "ti_dispatch"
  /\ Req(1).payload.action = "created"
  /\ \E i, j, k \in DOMAIN outbox :
       /\ i < j /\ j < k
       /\ outbox[i].op = "thought" /\ outbox[i].arg = "Looking" /\ outbox[i].ok
       /\ outbox[j].op = "getIssueContext"
       /\ outbox[k].op = "listBranches"
  /\ pending_workflow_triggers # {}

\* C22: in every reachable state a WorkflowRun whose conclusion is not null
\* has status completed, whatever the order of CI events and unassignments.
C22_ConclusionOnlyWhenCompleted ==
  \A r \in workflow_runs : r.conclusion # None => r.status = "completed"

\* C23: the PR number and URL of a WorkflowRun go from null to a value at
\* most once and are never changed afterwards, also when several completed
\* events with different delivery ids arrive for the same run.
C23_PullRequestSetOnce ==
  [][\A r \in workflow_runs :
       (~IsNull(r.pr_number) \/ r.pr_url # None)
         => \A n \in workflow_runs' :
              n.github_run_id = r.github_run_id
                => n.pr_number = r.pr_number /\ n.pr_url = r.pr_url]_vars

\* ------------------------------------------------ properties of the utilities
\* The last call made to a utility function, when it is a call of fn.
Called(fn) == Len(calls) = 1 /\ calls[1].fn = fn

\* ^agent/[a-z0-9-]+$
MatchesAgentPattern(name) ==
  /\ Len(name) > Len(AgentPrefix)
  /\ SubSeq(name, 1, Len(AgentPrefix)) = AgentPrefix
  /\ \A i \in (Len(AgentPrefix) + 1)..Len(name) :
       name[i] \in Range(LowerLetters) \cup Range(Digits) \cup {"-"}

\* C24: for every identifier, the empty one included, baseName(identifier) is
\* lowercase, matches ^agent/[a-z0-9-]+$ and is 'agent/' followed by the
\* lowercased identifier with each character outside [a-z0-9-] replaced by
\* one '-'.
C24_BaseNameWellFormed ==
  Called("generateBranchName") =>
    LET identifier == calls[1].args[1]
        name == calls[1].result
    IN  /\ name = toLowerCase(name)
        /\ MatchesAgentPattern(name)
        /\ Len(name) = Len(AgentPrefix) + Len(identifier)
        /\ \A i \in DOMAIN identifier :
             name[Len(AgentPrefix) + i] =
               IF LowerChar(identifier[i]) \in Range(LowerLetters) \cup Range(Digits) \cup {"-"}
               THEN LowerChar(identifier[i]) ELSE "-"

\* C25: for every identifier and every list of existing names,
\* findAvailableBranchName returns a name that is not in the list: the base
\* name when it is unused, otherwise base-k for the smallest k >= 2 such that
\* base-k is not in the list; the call ends and writes nothing.
C25_NextAvailableIsFree ==
  [][(calls = <<>> /\ Called("findAvailableBranchName")')
       => LET identifier == calls'[1].args[1]
              existingBranches == calls'[1].args[2]
              baseName == AgentPrefix \o Sanitized(identifier)
              name == calls'[1].result
              Used(n) == \E i \in DOMAIN existingBranches : existingBranches[i] = n
              Numbered(k) == baseName \o <<"-">> \o Decimal(k)
          IN  /\ ~Used(name)
              /\ ~Used(baseName) => name = baseName
              /\ Used(baseName)
                   => \E k \in 2..(Len(existingBranches) + 2) :
                        /\ name = Numbered(k)
                        /\ \A j \in 2..(k - 1) : Used(Numbered(j))
              /\ UNCHANGED <<tables, outbox>>]_vars

\* The base name and its forms -2 and -3 were all taken, and the call
\* returned the form -4.
C25_Witness ==
  /\ Called("findAvailableBranchName")
  /\ calls[1].args[1] = <<"A", "-">>
  /\ calls[1].args[2] = <<Suffixed(generateBranchName(<<"A", "-">>), 3),
                          generateBranchName(<<"A", "-">>),
                          Suffixed(generateBranchName(<<"A", "-">>), 2)>>
  /\ calls[1].result = <<"a", "g", "e", "n", "t", "/", "a", "-", "-", "4">>

\* C26: with the HMAC an abstract function of (secret, body), the Linear
\* verifier returns true exactly when the signature is the hex digest of the
\* body under the secret, and the GitHub verifier exactly when it is
\* 'sha256=' followed by that digest; every other signature (other length,
\* other content, no prefix, empty, digest of another body) gives false, and
\* both always return a boolean.
C26_VerifiersAccept ==
  /\ Called("verifyLinearSignature")
       => /\ calls[1].result \in BOOLEAN
          /\ calls[1].result
               <=> calls[1].args[2] = HmacHex(calls[1].args[3], calls[1].args[1])
  /\ Called("verifyGitHubSignature")
       => /\ calls[1].result \in BOOLEAN
          /\ calls[1].result
               <=> calls[1].args[2] =
                     <<"s", "h", "a", "2", "5", "6", "=">>
                       \o HmacHex(calls[1].args[3], calls[1].args[1])

\* The GitHub verifier was given the prefixed digest changed in its first
\* digit only, and returned false.
C26_Witness ==
  /\ Called("verifyGitHubSignature")
  /\ calls[1].args[2] =
       Sha256Prefix
         \o [HmacHex(GITHUB_WEBHOOK_SECRET, "body-1") EXCEPT
               ![1] = HmacHex("other-secret", "body-1")[1]]
  /\ calls[1].args[1] = "body-1"
  /\ calls[1].args[3] = GITHUB_WEBHOOK_SECRET
  /\ calls[1].result = FALSE

\* The markers of a work request and of a status request.
WorkMarkers ==
  {<<"i", "m", "p", "l", "e", "m", "e", "n", "t">>, <<"w", "o", "r", "k", " ", "o", "n">>,
   <<"f", "i", "x">>, <<"a", "d", "d">>, <<"u", "p", "d", "a", "t", "e">>,
   <<"c", "h", "a", "n", "g", "e">>}
StatusMarkers ==
  {<<"s", "t", "a", "t", "u", "s">>, <<"p", "r", "o", "g", "r", "e", "s", "s">>,
   <<"h", "o", "w", "'", "s", " ", "i", "t", " ", "g", "o", "i", "n", "g">>}

\* The message holds the marker, whatever the case of its letters.
Holds(message, marker) ==
  \E i \in 1..(Len(message) - Len(marker) + 1) :
    \A j \in 1..Len(marker) : LowerChar(message[i + j - 1]) = marker[j]

\* C27: for a configured team with no PendingConfig and no active run, a
\* message is a work request if it holds a work marker, else a status request
\* if it holds a status marker, else unclear.  A work request sends the
\* 'starting' thought and invokes Dispatch; a status request and an unclear
\* message each send one reply, write nothing and invoke no Dispatch; a
\* message with markers of both kinds is a work request.
C27_IntentClassification ==
  [][\A p \in Procs :
       LET payload == Req(p).payload
           sessionId == payload.agentSession.id
           message == UserMessage(payload)
           work == \E m \in WorkMarkers : Holds(message, m)
           status == \E m \in StatusMarkers : Holds(message, m)
       IN  (Active(p) /\ Moved(p) /\ isAgentSessionWebhook(payload)
            /\ payload.action = "prompted")
             => /\ (proc[p].pc = "sp_config" /\ TeamHasOwner(payload))
                  => /\ proc'[p].pc = IF work THEN "sp_starting"
                                      ELSE IF status THEN "sp_status"
                                      ELSE "sp_unclear"
                     /\ UNCHANGED <<tables, outbox>>
                /\ proc[p].pc = "sp_starting"
                  => /\ work
                     /\ SentOne
                     /\ Sent.op = "thought" /\ Sent.target = sessionId
                     /\ UNCHANGED tables
                     /\ IF Sent.ok
                        THEN /\ proc'[p].pc = "ti_check"
                             /\ Val(proc'[p].dispatch).agentSessionId = sessionId
                             /\ Val(proc'[p].dispatch).issueId = payload.agentSession.issue.id
                        ELSE Ended(proc'[p])
                /\ proc[p].pc = "sp_status"
                  => /\ ~work /\ status
                     /\ SentOne
                     /\ Sent.op = "response" /\ Sent.target = sessionId
                     /\ Sent.arg = "no_active_work"
                     /\ UNCHANGED tables
                     /\ Ended(proc'[p])
                /\ proc[p].pc = "sp_unclear"
                  => /\ ~work /\ ~status
                     /\ SentOne
                     /\ Sent.op = "elicitation" /\ Sent.target = sessionId
                     /\ Sent.arg = "unclear"
                     /\ UNCHANGED tables
                     /\ Ended(proc'[p])
                /\ proc'[p].pc = "ti_check" => proc[p].pc = "sp_starting" /\ work]_vars

\* The message 'status fix', with a marker of each kind, was taken for a work
\* request: the 'starting' thought was sent and Dispatch wrote its trigger.
C27_Witness ==
  /\ proc[1].pc = "ti_dispatch"
  /\ UserMessage(Req(1).payload) = <<"s", "t", "a", "t", "u", "s", " ", "f", "i", "x">>
  /\ \E i \in DOMAIN outbox : outbox[i].op = "thought" /\ outbox[i].arg = "Starting new"
  /\ \E t \in pending_workflow_triggers : t.agent_session_id = "s1"

\* The triggers of a session that record the target of a dispatch: its owner,
\* its repository and the branch the job is dispatched on.
TriggersFor(d) ==
  {t \in pending_workflow_triggers :
     /\ t.agent_session_id = d.agentSessionId
     /\ t.workflow_type = "implement"
     /\ t.github_owner = d.config.github_owner
     /\ t.github_repo = d.config.github_repo
     /\ t.branch_name = d.config.github_branch}

\* C28: whenever Dispatch makes the CI dispatch call, a trigger of
\* (session, implement) is stored that is unmatched and records the
\* TeamConfig's owner, repository and dispatch branch, the branch that is the
\* ref of the call and not the feature branch.
C28_TriggerBeforeDispatch ==
  [][\A p \in Procs :
       (proc[p].pc = "ti_dispatch" /\ Moved(p))
         => /\ SentOne
            /\ Sent.op = "triggerWorkflow"
            /\ Sent.arg.ref = Dispatch(p).config.github_branch
            /\ Sent.arg.agent_session_id = Dispatch(p).agentSessionId
            /\ \E t \in TriggersFor(Dispatch(p)) : IsNull(t.matched_at)]_vars

\* The last outbound call made before a step.
LastCall == outbox[Len(outbox)]

\* C29: Dispatch fetches the issue context, lists the branches, writes the
\* trigger, sends the 'starting' action and calls the CI dispatch, in that
\* order: the trigger is stored when the 'starting' action is sent, and stays
\* stored when sending that action fails.
C29_DispatchOrder ==
  [][\A p \in Procs :
       (Active(p) /\ Moved(p)
        /\ proc[p].pc \in {"ti_context", "ti_branches", "ti_log", "ti_starting",
                           "ti_pending", "ti_dispatch"})
         => LET d == Dispatch(p)
            IN  /\ (SentOne /\ Sent.op = "listBranches")
                     => LastCall.op = "getIssueContext" /\ LastCall.ok
                /\ pending_workflow_triggers' # pending_workflow_triggers
                     => LastCall.op = "listBranches" /\ LastCall.ok
                /\ (SentOne /\ Sent.op = "action")
                     => /\ LastCall.op = "listBranches" /\ LastCall.ok
                        /\ TriggersFor(d) # {}
                        /\ pending_workflow_triggers' = pending_workflow_triggers
                /\ (SentOne /\ Sent.op = "triggerWorkflow")
                     => LastCall.op = "action" /\ LastCall.ok]_vars

\* C30: matchPendingWorkflowTrigger(owner, repo, branch) returns a trigger
\* only if it has exactly that owner, repository and branch and no
\* matched_at; among several such triggers it returns the one created last;
\* it returns nothing when none qualifies, and it changes no row.
C30_MatchReturnsNewest ==
  [][\A p \in Procs :
       (proc[p].pc = "wr_match" /\ Moved(p))
         => LET wr == Req(p).payload.workflow_run
                qualifying == {t \in pending_workflow_triggers :
                                 /\ t.github_owner = wr.owner
                                 /\ t.github_repo = wr.repo
                                 /\ t.branch_name = wr.head_branch
                                 /\ t.matched_at = Null}
            IN  /\ UNCHANGED tables
                /\ IF qualifying = {}
                   THEN proc'[p].pendingTrigger = Null /\ proc'[p].pc = "idle"
                   ELSE /\ proc'[p].pc = "wr_create"
                        /\ Val(proc'[p].pendingTrigger) \in qualifying
                        /\ \A t \in qualifying :
                             t.id <= Val(proc'[p].pendingTrigger).id]_vars

\* C31: matching is a read followed, two statements later, by a mark: the
\* read changes no row, and a request that holds a trigger creates its
\* WorkflowRun from it whether or not another request has bound or marked the
\* same trigger in between, so that two start events with different run ids
\* handled concurrently can both create a run from one trigger.
C31_MatchIsReadThenMark ==
  [][\A p \in Procs :
       /\ (proc[p].pc = "wr_match" /\ Moved(p)) => UNCHANGED tables
       /\ (proc[p].pc = "wr_create" /\ Moved(p)
           /\ ~RunConflict(workflow_runs, Req(p).payload.workflow_run.id))
            => LET t == Val(proc[p].pendingTrigger)
                   wr == Req(p).payload.workflow_run
               IN  /\ pending_workflow_triggers' = pending_workflow_triggers
                   /\ \E r \in workflow_runs' \ workflow_runs :
                        /\ r.github_run_id = wr.id
                        /\ r.agent_session_id = t.agent_session_id
                   /\ bindings' = bindings \cup {<<wr.id, t.id>>}]_vars

\* Both start events read the one unmatched trigger before either marked it,
\* and runs 101 and 102 were both created from it.
C31_Witness ==
  /\ Cardinality(pending_workflow_triggers) = 1
  /\ \E t \in pending_workflow_triggers : bindings = {<<101, t.id>>, <<102, t.id>>}
  /\ {r.github_run_id : r \in workflow_runs} = {101, 102}
  /\ \A r \in workflow_runs : r.agent_session_id = "s1"

\* A workflow_run event that finds nothing to act on: no WorkflowRun has its
\* run id and no unmatched trigger has its owner, repository and branch.
Unsolicited(wr) ==
  /\ ~\E r \in workflow_runs : r.github_run_id = wr.id
  /\ ~\E t \in pending_workflow_triggers :
        /\ t.github_owner = wr.owner
        /\ t.github_repo = wr.repo
        /\ t.branch_name = wr.head_branch
        /\ t.matched_at = Null

\* C32: a workflow_run event whose run id has no WorkflowRun and for which no
\* unmatched trigger has the same owner, repository and branch is dropped:
\* the look-up of the run and the look-up of a trigger change no table and
\* make no call, and the endpoint then answers 200 'ok'.
C32_UnsolicitedRunIsDropped ==
  [][\A p \in Procs :
       (Moved(p) /\ proc[p].pc \in {"wr_get", "wr_match"}
        /\ Unsolicited(Req(p).payload.workflow_run))
         => /\ UNCHANGED <<tables, outbox>>
            /\ proc[p].pc = "wr_get" => proc'[p].pc = "wr_match"
            /\ proc[p].pc = "wr_match"
                 => proc'[p] = Responded(200, "ok")]_vars

\* The start of run 102 was handled after run 101 had taken the only trigger:
\* the trigger is matched, run 102 has no record and the endpoint answered ok.
C32_Witness ==
  /\ proc[1].pc = "idle"
  /\ proc[1].resp = [status |-> 200, body |-> "ok"]
  /\ handled # <<>>
  /\ handled[Len(handled)] = <<GitHubWebhookId("workflow_run", "d5", now), "github">>
  /\ pending_workflow_triggers # {}
  /\ \A t \in pending_workflow_triggers : t.matched_at # Null
  /\ {r.github_run_id : r \in workflow_runs} = {101}

\* A free-text reply: a prompted session event that carries the activity of
\* the reply.
IsReply(payload) ==
  /\ isAgentSessionWebhook(payload)
  /\ payload.action = "prompted"
  /\ payload.agentActivity.id # ""

\* The session events that are not the given reply: the created event of its
\* session and the other replies in it.
OtherEventsOfSession(payload) ==
  {other \in LinearPayloads :
     /\ isAgentSessionWebhook(other)
     /\ other.agentSession.id = payload.agentSession.id
     /\ \/ other.action # "prompted"
        \/ other.agentActivity.id # payload.agentActivity.id}

\* C33: the id a reply is given differs from the id of its session's created
\* event and from the id of every other reply in the session, at any time
\* those are delivered; the reply is skipped as already processed only when
\* its own id is in the ledger, and is recorded and routed otherwise.
C33_RepliesHaveDistinctIds ==
  [][\A p \in Procs :
       (Moved(p) /\ Active(p) /\ Req(p).endpoint = "linear" /\ IsReply(Req(p).payload))
         => /\ (proc[p].pc = "l_verify" /\ proc'[p].pc = "l_check")
                 => \A other \in OtherEventsOfSession(Req(p).payload) :
                      \A clock \in 0..MaxClock :
                        generateWebhookId(other, clock) # proc'[p].webhookId
            /\ proc[p].pc = "l_check"
                 => IF \E row \in processed_webhooks :
                         row.webhook_id = proc[p].webhookId
                    THEN proc'[p] = Responded(200, "already_processed")
                    ELSE proc'[p].pc = "l_mark"]_vars

\* The session was created and two different replies in it were delivered:
\* all three were recorded and routed to the handlers.
C33_Witness ==
  /\ proc[1].pc = "idle"
  /\ Len(handled) = 3
  /\ Cardinality(processed_webhooks) = 3
  /\ \E i, j, k \in DOMAIN handled :
       /\ handled[i][1] = <<"linear-session", "s1", "created">>
       /\ handled[j][1] = <<"linear-session", "s1", "prompted", "p2">>
       /\ handled[k][1] = <<"linear-session", "s1", "prompted", "p3">>

\* C34: the id a delivery is given depends on its content alone (the payload
\* and, on the GitHub endpoint, the event-type and delivery-id headers), not
\* on the time it is handled at; a delivery whose content was recorded before,
\* at whatever time, is answered already_processed.
C34_IdFromContentAlone ==
  [][\A p \in Procs :
       (Moved(p) /\ Active(p))
         => LET request == Req(p)
            IN  /\ (proc[p].pc = "l_verify" /\ proc'[p].pc = "l_check")
                     => \A clock \in 0..MaxClock :
                          proc'[p].webhookId = generateWebhookId(request.payload, clock)
                /\ (proc[p].pc = "g_verify" /\ proc'[p].pc = "g_check")
                     => \A clock \in 0..MaxClock :
                          proc'[p].webhookId =
                            GitHubWebhookId(request.eventType, request.delivery, clock)
                /\ (proc[p].pc = "l_check"
                    /\ \E clock \in 0..MaxClock :
                         isWebhookProcessed(processed_webhooks,
                                            generateWebhookId(request.payload, clock),
                                            "linear"))
                     => proc'[p] = Responded(200, "already_processed")]_vars

\* C35: a workflow_run event of a run that this worker did not dispatch (a
\* run of another workflow on the same owner, repository and branch) creates
\* no WorkflowRun and leaves every trigger as it is.
C35_OnlyDispatchedRunsAreRecorded ==
  [][\A p \in Procs :
       (Moved(p) /\ Active(p) /\ Req(p).endpoint = "github"
        /\ Req(p).eventType = "workflow_run"
        /\ Req(p).payload.workflow_run.name # AgentWorkflow)
         => /\ workflow_runs' = workflow_runs
            /\ pending_workflow_triggers' = pending_workflow_triggers]_vars

\* C36: with the dispatches of two sessions accepted for the same owner,
\* repository and branch, the WorkflowRun created for the start event of
\* either run carries the session and the issue of the dispatch that created
\* that run, in whichever order the start events are handled.
C36_RunBoundToItsDispatch ==
  [][\A p \in Procs :
       (proc[p].pc = "wr_create" /\ Moved(p)
        /\ Req(p).payload.action = "requested"
        /\ IsDispatchedRun(Req(p).payload.workflow_run)
        /\ {call.arg.agent_session_id : call \in Range(AcceptedDispatches)} = Sessions)
         => \A r \in workflow_runs' \ workflow_runs :
              LET s == DispatcherOf(Req(p).payload.workflow_run.id)
              IN  /\ r.agent_session_id = s
                  /\ r.linear_issue_id = IssueOf(s).id]_vars

\* C37: when the CI dispatch call of a Dispatch has failed, the request ends
\* with no unmatched trigger of its (session, implement) in the store.
C37_FailedDispatchLeavesNoTrigger ==
  [][\A p \in Procs :
       (Moved(p) /\ Active(p) /\ ~Active(p)' /\ outbox # <<>>
        /\ LastCall.op = "triggerWorkflow" /\ ~LastCall.ok)
         => ~\E t \in pending_workflow_triggers' :
               /\ t.agent_session_id = LastCall.arg.agent_session_id
               /\ t.workflow_type = "implement"
               /\ t.matched_at = Null]_vars

\* The deliveries routed to the handlers that were unassignments of an issue
\* and whose handling has ended, no call having failed, with no session event
\* (the only events that dispatch) routed after them.
SettledUnassignments(issueId) ==
  {u \in DOMAIN handled :
     /\ handled[u][2] = "linear"
     /\ handled[u][1][1] = "linear-unassign"
     /\ handled[u][1][2] = issueId
     /\ u < Len(handled) \/ \A p \in Procs : ~Active(p)
     /\ \A j \in DOMAIN handled : j > u => handled[j][2] = "github"
     /\ faults = 0}

\* C38: after an unassignment of an issue has been handled, and as long as
\* no new Dispatch happens, no WorkflowRun of that issue has status queued
\* or in_progress.
C38_UnassignCancelsEveryJob ==
  \A s \in Sessions :
    SettledUnassignments(IssueOf(s).id) # {}
      => \A r \in workflow_runs :
           r.linear_issue_id = IssueOf(s).id => r.status = "completed"

\* The terminal notifications a session has been sent: the positions in the
\* outbox of the delivered responses and errors of handleWorkflowComplete and
\* of the cancellation notices of cancelWorkflow.
TerminalNotices(sessionId) ==
  {i \in DOMAIN outbox :
     /\ outbox[i].api = "linear"
     /\ outbox[i].ok
     /\ outbox[i].target = sessionId
     /\ \/ outbox[i].op \in {"response", "error"}
        \/ outbox[i].op = "thought" /\ outbox[i].arg = "Workflow cancelled"}

\* C39: a session is sent at most one terminal notification for each of its
\* WorkflowRuns, whatever completed events are delivered for a run.
C39_OneTerminalNoticePerRun ==
  \A s \in Sessions :
    Cardinality(TerminalNotices(s))
      <= Cardinality({r \in workflow_runs : r.agent_session_id = s})

\* Run runId has its record completed, and its session has been sent as many
\* terminal notifications as it has completed runs.
Answered(runId) ==
  \E r \in workflow_runs :
    /\ r.github_run_id = runId
    /\ r.status = "completed"
    /\ Cardinality(TerminalNotices(r.agent_session_id))
         >= Cardinality({q \in workflow_runs :
                           q.agent_session_id = r.agent_session_id
                           /\ q.status = "completed"})

\* C40: once the dispatch that creates a run has been accepted, and with the
\* platform reporting the run's start and completion, the run's session is
\* eventually sent the terminal notification of that run, unless an outbound
\* call fails.
C40_DispatchedRunIsAnswered ==
  \A runId \in {101, 102} :
    ((runId - 100) \in DOMAIN AcceptedDispatches /\ faults = 0)
      ~> (Answered(runId) \/ faults > 0)

====
